---- MODULE Spec2Model ----
(***************************************************************************)
(* Model of the engineering-team repository: the AgentFactory of           *)
(* src/src/agents.py (tool resolution with its module cache, instruction   *)
(* building, agent creation) and the EngineeringTeam orchestrator of       *)
(* src/src/orchestrator.py (composition of the two-phase team and the run  *)
(* loop over the event stream).                                            *)
(*                                                                         *)
(* Strings are sequences of characters.  A character is a one-letter       *)
(* string; a fixed piece of text the code writes (a section prefix) counts *)
(* as one character, and a placeholder such as {requirements} may be       *)
(* written in a template as one piece that stands for its characters.      *)
(* Python dicts are functions whose DOMAIN is the set of keys, so          *)
(* "k in d" is k \in DOMAIN d.  An ordered dict is a sequence of           *)
(* [name, cfg] entries with distinct names.                                *)
(***************************************************************************)
EXTENDS Integers, Sequences, FiniteSets, TLC

VARIABLES
    agents_config,       \* AgentFactory.agents_config: worker name -> dict
    tasks_config,        \* AgentFactory.tasks_config: ordered task name -> dict
    requirements,        \* EngineeringTeam.requirements
    verbose,             \* EngineeringTeam.verbose
    custom_tools_cache,  \* AgentFactory.custom_tools_cache: module -> tools dict
    imports,             \* number of importlib.import_module calls per module
    last_call,           \* arguments and outcome of the last factory call
    pc,                  \* position of the program (main.run)
    agents_dict,         \* result of create_all_agents inside __init__
    team,                \* EngineeringTeam.team (the composed workflow)
    submitted,           \* the agent handed to InMemoryRunner by run
    wstate,              \* execution engine: state of every worker
    emitted,             \* execution engine: events emitted per worker
    stream,              \* events emitted and not yet consumed by the loop
    saved,               \* files written by save_to_file
    current_agent,       \* run: the current_agent cursor
    final_result,        \* run: final_result
    printed,             \* run: the lines printed by the loop
    consumed,            \* run: the events the loop has taken, in order
    result               \* run: the returned dict

vars == <<agents_config, tasks_config, requirements, verbose,
          custom_tools_cache, imports, last_call, pc, agents_dict, team,
          submitted, wstate, emitted, stream, saved, current_agent,
          final_result, printed, consumed, result>>

factoryVars == <<custom_tools_cache, imports>>
configVars  == <<agents_config, tasks_config, requirements, verbose>>
engineVars  == <<submitted, wstate, emitted, stream, saved>>
loopVars    == <<current_agent, final_result, printed, consumed, result>>

----------------------------------------------------------------------------
(* Python values *)

\* A value that may be None is a record: None is Nothing and any other
\* object v is Some(v), so that None is equal to no str, list or dict, the
\* empty ones included.
Nothing == [none |-> TRUE]
Some(v) == [some |-> v]

\* str(x) of a value that is None or a str, as an f-string prints it.
str_of(x) == IF x = Nothing THEN "None" ELSE x.some

\* The outcome of a call: a value or a raised exception.
Ok(v) == [ok |-> TRUE, val |-> v, err |-> "none"]
Raise(e) == [ok |-> FALSE, val |-> Nothing, err |-> e]

\* A local name for a value: F applied to the value of e, with e evaluated
\* once (x = e; return F(x)).
With(e, F(_)) == CHOOSE y \in {F(x) : x \in {e}} : TRUE

\* Whitespace removed by str.strip(): every character str.isspace() holds
\* for.  A character with no escape of its own is the token of its code
\* point.
Whitespace ==
    {" ", "\t", "\n", "\r", "\f", "\\x0b", "\\x1c", "\\x1d", "\\x1e", "\\x1f",
     "\\x85", "\\xa0", "\\u1680", "\\u2000", "\\u2001", "\\u2002", "\\u2003",
     "\\u2004", "\\u2005", "\\u2006", "\\u2007", "\\u2008", "\\u2009",
     "\\u200a", "\\u2028", "\\u2029", "\\u202f", "\\u205f", "\\u3000"}

RECURSIVE lstrip(_)
lstrip(s) ==
    IF s # <<>> /\ Head(s) \in Whitespace THEN lstrip(Tail(s)) ELSE s

RECURSIVE rstrip(_)
rstrip(s) ==
    IF s # <<>> /\ s[Len(s)] \in Whitespace
    THEN rstrip(SubSeq(s, 1, Len(s) - 1)) ELSE s

\* str.strip()
strip(s) == rstrip(lstrip(s))


\* The placeholders a template may hold, each written as one piece.
Placeholders == {"{requirements}", "{nonexistent}"}

\* The characters of the names the placeholders hold.
Requirements == <<"r", "e", "q", "u", "i", "r", "e", "m", "e", "n", "t", "s">>
Nonexistent == <<"n", "o", "n", "e", "x", "i", "s", "t", "e", "n", "t">>

\* The characters a piece of a template stands for.
spell(c) ==
    IF c = "{requirements}" THEN <<"{">> \o Requirements \o <<"}">>
    ELSE IF c = "{nonexistent}" THEN <<"{">> \o Nonexistent \o <<"}">>
    ELSE <<c>>

RECURSIVE chars(_)
\* The characters of a template.
chars(s) == IF s = <<>> THEN <<>> ELSE spell(Head(s)) \o chars(Tail(s))

\* The characters of the alphabet other than printable ASCII and the tab,
\* newline, return and form feed, each the token of its code point: the
\* controls and Latin-1, the whitespace of Unicode and its decimal digits.
\* They come in runs of consecutive code points, a run being the
\* hexadecimal digits of its first code point, what it holds (characters
\* that are not printable, printable ones, the digits 0 to 9), and its
\* tokens.
CodeRuns ==
    << [first |-> <<"0", "0">>, kind |-> "control",
        tokens |-> <<"\\x00", "\\x01", "\\x02", "\\x03", "\\x04", "\\x05",
                    "\\x06", "\\x07", "\\x08">>],
       [first |-> <<"0", "b">>, kind |-> "control",
        tokens |-> <<"\\x0b">>],
       [first |-> <<"0", "e">>, kind |-> "control",
        tokens |-> <<"\\x0e", "\\x0f">>],
       [first |-> <<"1", "0">>, kind |-> "control",
        tokens |-> <<"\\x10", "\\x11", "\\x12", "\\x13", "\\x14", "\\x15",
                    "\\x16", "\\x17", "\\x18", "\\x19", "\\x1a", "\\x1b",
                    "\\x1c", "\\x1d", "\\x1e", "\\x1f">>],
       [first |-> <<"7", "f">>, kind |-> "control",
        tokens |-> <<"\\x7f">>],
       [first |-> <<"8", "0">>, kind |-> "control",
        tokens |-> <<"\\x80", "\\x81", "\\x82", "\\x83", "\\x84", "\\x85",
                    "\\x86", "\\x87", "\\x88", "\\x89", "\\x8a", "\\x8b",
                    "\\x8c", "\\x8d", "\\x8e", "\\x8f">>],
       [first |-> <<"9", "0">>, kind |-> "control",
        tokens |-> <<"\\x90", "\\x91", "\\x92", "\\x93", "\\x94", "\\x95",
                    "\\x96", "\\x97", "\\x98", "\\x99", "\\x9a", "\\x9b",
                    "\\x9c", "\\x9d", "\\x9e", "\\x9f">>],
       [first |-> <<"a", "0">>, kind |-> "control",
        tokens |-> <<"\\xa0">>],
       [first |-> <<"a", "1">>, kind |-> "printable",
        tokens |-> <<"\\xa1", "\\xa2", "\\xa3", "\\xa4", "\\xa5", "\\xa6",
                    "\\xa7", "\\xa8", "\\xa9", "\\xaa", "\\xab", "\\xac">>],
       [first |-> <<"a", "d">>, kind |-> "control",
        tokens |-> <<"\\xad">>],
       [first |-> <<"a", "e">>, kind |-> "printable",
        tokens |-> <<"\\xae", "\\xaf">>],
       [first |-> <<"b", "0">>, kind |-> "printable",
        tokens |-> <<"\\xb0", "\\xb1", "\\xb2", "\\xb3", "\\xb4", "\\xb5",
                    "\\xb6", "\\xb7", "\\xb8", "\\xb9", "\\xba", "\\xbb",
                    "\\xbc", "\\xbd", "\\xbe", "\\xbf">>],
       [first |-> <<"c", "0">>, kind |-> "printable",
        tokens |-> <<"\\xc0", "\\xc1", "\\xc2", "\\xc3", "\\xc4", "\\xc5",
                    "\\xc6", "\\xc7", "\\xc8", "\\xc9", "\\xca", "\\xcb",
                    "\\xcc", "\\xcd", "\\xce", "\\xcf">>],
       [first |-> <<"d", "0">>, kind |-> "printable",
        tokens |-> <<"\\xd0", "\\xd1", "\\xd2", "\\xd3", "\\xd4", "\\xd5",
                    "\\xd6", "\\xd7", "\\xd8", "\\xd9", "\\xda", "\\xdb",
                    "\\xdc", "\\xdd", "\\xde", "\\xdf">>],
       [first |-> <<"e", "0">>, kind |-> "printable",
        tokens |-> <<"\\xe0", "\\xe1", "\\xe2", "\\xe3", "\\xe4", "\\xe5",
                    "\\xe6", "\\xe7", "\\xe8", "\\xe9", "\\xea", "\\xeb",
                    "\\xec", "\\xed", "\\xee", "\\xef">>],
       [first |-> <<"f", "0">>, kind |-> "printable",
        tokens |-> <<"\\xf0", "\\xf1", "\\xf2", "\\xf3", "\\xf4", "\\xf5",
                    "\\xf6", "\\xf7", "\\xf8", "\\xf9", "\\xfa", "\\xfb",
                    "\\xfc", "\\xfd", "\\xfe", "\\xff">>],
       [first |-> <<"0", "6", "6", "0">>, kind |-> "decimal",
        tokens |-> <<"\\u0660", "\\u0661", "\\u0662", "\\u0663", "\\u0664",
                    "\\u0665", "\\u0666", "\\u0667", "\\u0668", "\\u0669">>],
       [first |-> <<"0", "6", "f", "0">>, kind |-> "decimal",
        tokens |-> <<"\\u06f0", "\\u06f1", "\\u06f2", "\\u06f3", "\\u06f4",
                    "\\u06f5", "\\u06f6", "\\u06f7", "\\u06f8", "\\u06f9">>],
       [first |-> <<"0", "7", "c", "0">>, kind |-> "decimal",
        tokens |-> <<"\\u07c0", "\\u07c1", "\\u07c2", "\\u07c3", "\\u07c4",
                    "\\u07c5", "\\u07c6", "\\u07c7", "\\u07c8", "\\u07c9">>],
       [first |-> <<"0", "9", "6", "6">>, kind |-> "decimal",
        tokens |-> <<"\\u0966", "\\u0967", "\\u0968", "\\u0969", "\\u096a",
                    "\\u096b", "\\u096c", "\\u096d", "\\u096e", "\\u096f">>],
       [first |-> <<"0", "9", "e", "6">>, kind |-> "decimal",
        tokens |-> <<"\\u09e6", "\\u09e7", "\\u09e8", "\\u09e9", "\\u09ea",
                    "\\u09eb", "\\u09ec", "\\u09ed", "\\u09ee", "\\u09ef">>],
       [first |-> <<"0", "a", "6", "6">>, kind |-> "decimal",
        tokens |-> <<"\\u0a66", "\\u0a67", "\\u0a68", "\\u0a69", "\\u0a6a",
                    "\\u0a6b", "\\u0a6c", "\\u0a6d", "\\u0a6e", "\\u0a6f">>],
       [first |-> <<"0", "a", "e", "6">>, kind |-> "decimal",
        tokens |-> <<"\\u0ae6", "\\u0ae7", "\\u0ae8", "\\u0ae9", "\\u0aea",
                    "\\u0aeb", "\\u0aec", "\\u0aed", "\\u0aee", "\\u0aef">>],
       [first |-> <<"0", "b", "6", "6">>, kind |-> "decimal",
        tokens |-> <<"\\u0b66", "\\u0b67", "\\u0b68", "\\u0b69", "\\u0b6a",
                    "\\u0b6b", "\\u0b6c", "\\u0b6d", "\\u0b6e", "\\u0b6f">>],
       [first |-> <<"0", "b", "e", "6">>, kind |-> "decimal",
        tokens |-> <<"\\u0be6", "\\u0be7", "\\u0be8", "\\u0be9", "\\u0bea",
                    "\\u0beb", "\\u0bec", "\\u0bed", "\\u0bee", "\\u0bef">>],
       [first |-> <<"0", "c", "6", "6">>, kind |-> "decimal",
        tokens |-> <<"\\u0c66", "\\u0c67", "\\u0c68", "\\u0c69", "\\u0c6a",
                    "\\u0c6b", "\\u0c6c", "\\u0c6d", "\\u0c6e", "\\u0c6f">>],
       [first |-> <<"0", "c", "e", "6">>, kind |-> "decimal",
        tokens |-> <<"\\u0ce6", "\\u0ce7", "\\u0ce8", "\\u0ce9", "\\u0cea",
                    "\\u0ceb", "\\u0cec", "\\u0ced", "\\u0cee", "\\u0cef">>],
       [first |-> <<"0", "d", "6", "6">>, kind |-> "decimal",
        tokens |-> <<"\\u0d66", "\\u0d67", "\\u0d68", "\\u0d69", "\\u0d6a",
                    "\\u0d6b", "\\u0d6c", "\\u0d6d", "\\u0d6e", "\\u0d6f">>],
       [first |-> <<"0", "d", "e", "6">>, kind |-> "decimal",
        tokens |-> <<"\\u0de6", "\\u0de7", "\\u0de8", "\\u0de9", "\\u0dea",
                    "\\u0deb", "\\u0dec", "\\u0ded", "\\u0dee", "\\u0def">>],
       [first |-> <<"0", "e", "5", "0">>, kind |-> "decimal",
        tokens |-> <<"\\u0e50", "\\u0e51", "\\u0e52", "\\u0e53", "\\u0e54",
                    "\\u0e55", "\\u0e56", "\\u0e57", "\\u0e58", "\\u0e59">>],
       [first |-> <<"0", "e", "d", "0">>, kind |-> "decimal",
        tokens |-> <<"\\u0ed0", "\\u0ed1", "\\u0ed2", "\\u0ed3", "\\u0ed4",
                    "\\u0ed5", "\\u0ed6", "\\u0ed7", "\\u0ed8", "\\u0ed9">>],
       [first |-> <<"0", "f", "2", "0">>, kind |-> "decimal",
        tokens |-> <<"\\u0f20", "\\u0f21", "\\u0f22", "\\u0f23", "\\u0f24",
                    "\\u0f25", "\\u0f26", "\\u0f27", "\\u0f28", "\\u0f29">>],
       [first |-> <<"1", "0", "4", "0">>, kind |-> "decimal",
        tokens |-> <<"\\u1040", "\\u1041", "\\u1042", "\\u1043", "\\u1044",
                    "\\u1045", "\\u1046", "\\u1047", "\\u1048", "\\u1049">>],
       [first |-> <<"1", "0", "9", "0">>, kind |-> "decimal",
        tokens |-> <<"\\u1090", "\\u1091", "\\u1092", "\\u1093", "\\u1094",
                    "\\u1095", "\\u1096", "\\u1097", "\\u1098", "\\u1099">>],
       [first |-> <<"1", "6", "8", "0">>, kind |-> "control",
        tokens |-> <<"\\u1680">>],
       [first |-> <<"1", "7", "e", "0">>, kind |-> "decimal",
        tokens |-> <<"\\u17e0", "\\u17e1", "\\u17e2", "\\u17e3", "\\u17e4",
                    "\\u17e5", "\\u17e6", "\\u17e7", "\\u17e8", "\\u17e9">>],
       [first |-> <<"1", "8", "1", "0">>, kind |-> "decimal",
        tokens |-> <<"\\u1810", "\\u1811", "\\u1812", "\\u1813", "\\u1814",
                    "\\u1815", "\\u1816", "\\u1817", "\\u1818", "\\u1819">>],
       [first |-> <<"1", "9", "4", "6">>, kind |-> "decimal",
        tokens |-> <<"\\u1946", "\\u1947", "\\u1948", "\\u1949", "\\u194a",
                    "\\u194b", "\\u194c", "\\u194d", "\\u194e", "\\u194f">>],
       [first |-> <<"1", "9", "d", "0">>, kind |-> "decimal",
        tokens |-> <<"\\u19d0", "\\u19d1", "\\u19d2", "\\u19d3", "\\u19d4",
                    "\\u19d5", "\\u19d6", "\\u19d7", "\\u19d8", "\\u19d9">>],
       [first |-> <<"1", "a", "8", "0">>, kind |-> "decimal",
        tokens |-> <<"\\u1a80", "\\u1a81", "\\u1a82", "\\u1a83", "\\u1a84",
                    "\\u1a85", "\\u1a86", "\\u1a87", "\\u1a88", "\\u1a89">>],
       [first |-> <<"1", "a", "9", "0">>, kind |-> "decimal",
        tokens |-> <<"\\u1a90", "\\u1a91", "\\u1a92", "\\u1a93", "\\u1a94",
                    "\\u1a95", "\\u1a96", "\\u1a97", "\\u1a98", "\\u1a99">>],
       [first |-> <<"1", "b", "5", "0">>, kind |-> "decimal",
        tokens |-> <<"\\u1b50", "\\u1b51", "\\u1b52", "\\u1b53", "\\u1b54",
                    "\\u1b55", "\\u1b56", "\\u1b57", "\\u1b58", "\\u1b59">>],
       [first |-> <<"1", "b", "b", "0">>, kind |-> "decimal",
        tokens |-> <<"\\u1bb0", "\\u1bb1", "\\u1bb2", "\\u1bb3", "\\u1bb4",
                    "\\u1bb5", "\\u1bb6", "\\u1bb7", "\\u1bb8", "\\u1bb9">>],
       [first |-> <<"1", "c", "4", "0">>, kind |-> "decimal",
        tokens |-> <<"\\u1c40", "\\u1c41", "\\u1c42", "\\u1c43", "\\u1c44",
                    "\\u1c45", "\\u1c46", "\\u1c47", "\\u1c48", "\\u1c49">>],
       [first |-> <<"1", "c", "5", "0">>, kind |-> "decimal",
        tokens |-> <<"\\u1c50", "\\u1c51", "\\u1c52", "\\u1c53", "\\u1c54",
                    "\\u1c55", "\\u1c56", "\\u1c57", "\\u1c58", "\\u1c59">>],
       [first |-> <<"2", "0", "0", "0">>, kind |-> "control",
        tokens |-> <<"\\u2000", "\\u2001", "\\u2002", "\\u2003", "\\u2004",
                    "\\u2005", "\\u2006", "\\u2007", "\\u2008", "\\u2009",
                    "\\u200a">>],
       [first |-> <<"2", "0", "2", "8">>, kind |-> "control",
        tokens |-> <<"\\u2028", "\\u2029">>],
       [first |-> <<"2", "0", "2", "f">>, kind |-> "control",
        tokens |-> <<"\\u202f">>],
       [first |-> <<"2", "0", "5", "f">>, kind |-> "control",
        tokens |-> <<"\\u205f">>],
       [first |-> <<"3", "0", "0", "0">>, kind |-> "control",
        tokens |-> <<"\\u3000">>],
       [first |-> <<"a", "6", "2", "0">>, kind |-> "decimal",
        tokens |-> <<"\\ua620", "\\ua621", "\\ua622", "\\ua623", "\\ua624",
                    "\\ua625", "\\ua626", "\\ua627", "\\ua628", "\\ua629">>],
       [first |-> <<"a", "8", "d", "0">>, kind |-> "decimal",
        tokens |-> <<"\\ua8d0", "\\ua8d1", "\\ua8d2", "\\ua8d3", "\\ua8d4",
                    "\\ua8d5", "\\ua8d6", "\\ua8d7", "\\ua8d8", "\\ua8d9">>],
       [first |-> <<"a", "9", "0", "0">>, kind |-> "decimal",
        tokens |-> <<"\\ua900", "\\ua901", "\\ua902", "\\ua903", "\\ua904",
                    "\\ua905", "\\ua906", "\\ua907", "\\ua908", "\\ua909">>],
       [first |-> <<"a", "9", "d", "0">>, kind |-> "decimal",
        tokens |-> <<"\\ua9d0", "\\ua9d1", "\\ua9d2", "\\ua9d3", "\\ua9d4",
                    "\\ua9d5", "\\ua9d6", "\\ua9d7", "\\ua9d8", "\\ua9d9">>],
       [first |-> <<"a", "9", "f", "0">>, kind |-> "decimal",
        tokens |-> <<"\\ua9f0", "\\ua9f1", "\\ua9f2", "\\ua9f3", "\\ua9f4",
                    "\\ua9f5", "\\ua9f6", "\\ua9f7", "\\ua9f8", "\\ua9f9">>],
       [first |-> <<"a", "a", "5", "0">>, kind |-> "decimal",
        tokens |-> <<"\\uaa50", "\\uaa51", "\\uaa52", "\\uaa53", "\\uaa54",
                    "\\uaa55", "\\uaa56", "\\uaa57", "\\uaa58", "\\uaa59">>],
       [first |-> <<"a", "b", "f", "0">>, kind |-> "decimal",
        tokens |-> <<"\\uabf0", "\\uabf1", "\\uabf2", "\\uabf3", "\\uabf4",
                    "\\uabf5", "\\uabf6", "\\uabf7", "\\uabf8", "\\uabf9">>],
       [first |-> <<"f", "f", "1", "0">>, kind |-> "decimal",
        tokens |-> <<"\\uff10", "\\uff11", "\\uff12", "\\uff13", "\\uff14",
                    "\\uff15", "\\uff16", "\\uff17", "\\uff18", "\\uff19">>],
       [first |-> <<"0", "0", "0", "1", "0", "4", "a", "0">>, kind |->
                    "decimal",
        tokens |-> <<"\\U000104a0", "\\U000104a1", "\\U000104a2",
                    "\\U000104a3", "\\U000104a4", "\\U000104a5",
                    "\\U000104a6", "\\U000104a7", "\\U000104a8",
                    "\\U000104a9">>],
       [first |-> <<"0", "0", "0", "1", "0", "d", "3", "0">>, kind |->
                    "decimal",
        tokens |-> <<"\\U00010d30", "\\U00010d31", "\\U00010d32",
                    "\\U00010d33", "\\U00010d34", "\\U00010d35",
                    "\\U00010d36", "\\U00010d37", "\\U00010d38",
                    "\\U00010d39">>],
       [first |-> <<"0", "0", "0", "1", "1", "0", "6", "6">>, kind |->
                    "decimal",
        tokens |-> <<"\\U00011066", "\\U00011067", "\\U00011068",
                    "\\U00011069", "\\U0001106a", "\\U0001106b",
                    "\\U0001106c", "\\U0001106d", "\\U0001106e",
                    "\\U0001106f">>],
       [first |-> <<"0", "0", "0", "1", "1", "0", "f", "0">>, kind |->
                    "decimal",
        tokens |-> <<"\\U000110f0", "\\U000110f1", "\\U000110f2",
                    "\\U000110f3", "\\U000110f4", "\\U000110f5",
                    "\\U000110f6", "\\U000110f7", "\\U000110f8",
                    "\\U000110f9">>],
       [first |-> <<"0", "0", "0", "1", "1", "1", "3", "6">>, kind |->
                    "decimal",
        tokens |-> <<"\\U00011136", "\\U00011137", "\\U00011138",
                    "\\U00011139", "\\U0001113a", "\\U0001113b",
                    "\\U0001113c", "\\U0001113d", "\\U0001113e",
                    "\\U0001113f">>],
       [first |-> <<"0", "0", "0", "1", "1", "1", "d", "0">>, kind |->
                    "decimal",
        tokens |-> <<"\\U000111d0", "\\U000111d1", "\\U000111d2",
                    "\\U000111d3", "\\U000111d4", "\\U000111d5",
                    "\\U000111d6", "\\U000111d7", "\\U000111d8",
                    "\\U000111d9">>],
       [first |-> <<"0", "0", "0", "1", "1", "2", "f", "0">>, kind |->
                    "decimal",
        tokens |-> <<"\\U000112f0", "\\U000112f1", "\\U000112f2",
                    "\\U000112f3", "\\U000112f4", "\\U000112f5",
                    "\\U000112f6", "\\U000112f7", "\\U000112f8",
                    "\\U000112f9">>],
       [first |-> <<"0", "0", "0", "1", "1", "4", "5", "0">>, kind |->
                    "decimal",
        tokens |-> <<"\\U00011450", "\\U00011451", "\\U00011452",
                    "\\U00011453", "\\U00011454", "\\U00011455",
                    "\\U00011456", "\\U00011457", "\\U00011458",
                    "\\U00011459">>],
       [first |-> <<"0", "0", "0", "1", "1", "4", "d", "0">>, kind |->
                    "decimal",
        tokens |-> <<"\\U000114d0", "\\U000114d1", "\\U000114d2",
                    "\\U000114d3", "\\U000114d4", "\\U000114d5",
                    "\\U000114d6", "\\U000114d7", "\\U000114d8",
                    "\\U000114d9">>],
       [first |-> <<"0", "0", "0", "1", "1", "6", "5", "0">>, kind |->
                    "decimal",
        tokens |-> <<"\\U00011650", "\\U00011651", "\\U00011652",
                    "\\U00011653", "\\U00011654", "\\U00011655",
                    "\\U00011656", "\\U00011657", "\\U00011658",
                    "\\U00011659">>],
       [first |-> <<"0", "0", "0", "1", "1", "6", "c", "0">>, kind |->
                    "decimal",
        tokens |-> <<"\\U000116c0", "\\U000116c1", "\\U000116c2",
                    "\\U000116c3", "\\U000116c4", "\\U000116c5",
                    "\\U000116c6", "\\U000116c7", "\\U000116c8",
                    "\\U000116c9">>],
       [first |-> <<"0", "0", "0", "1", "1", "7", "3", "0">>, kind |->
                    "decimal",
        tokens |-> <<"\\U00011730", "\\U00011731", "\\U00011732",
                    "\\U00011733", "\\U00011734", "\\U00011735",
                    "\\U00011736", "\\U00011737", "\\U00011738",
                    "\\U00011739">>],
       [first |-> <<"0", "0", "0", "1", "1", "8", "e", "0">>, kind |->
                    "decimal",
        tokens |-> <<"\\U000118e0", "\\U000118e1", "\\U000118e2",
                    "\\U000118e3", "\\U000118e4", "\\U000118e5",
                    "\\U000118e6", "\\U000118e7", "\\U000118e8",
                    "\\U000118e9">>],
       [first |-> <<"0", "0", "0", "1", "1", "9", "5", "0">>, kind |->
                    "decimal",
        tokens |-> <<"\\U00011950", "\\U00011951", "\\U00011952",
                    "\\U00011953", "\\U00011954", "\\U00011955",
                    "\\U00011956", "\\U00011957", "\\U00011958",
                    "\\U00011959">>],
       [first |-> <<"0", "0", "0", "1", "1", "c", "5", "0">>, kind |->
                    "decimal",
        tokens |-> <<"\\U00011c50", "\\U00011c51", "\\U00011c52",
                    "\\U00011c53", "\\U00011c54", "\\U00011c55",
                    "\\U00011c56", "\\U00011c57", "\\U00011c58",
                    "\\U00011c59">>],
       [first |-> <<"0", "0", "0", "1", "1", "d", "5", "0">>, kind |->
                    "decimal",
        tokens |-> <<"\\U00011d50", "\\U00011d51", "\\U00011d52",
                    "\\U00011d53", "\\U00011d54", "\\U00011d55",
                    "\\U00011d56", "\\U00011d57", "\\U00011d58",
                    "\\U00011d59">>],
       [first |-> <<"0", "0", "0", "1", "1", "d", "a", "0">>, kind |->
                    "decimal",
        tokens |-> <<"\\U00011da0", "\\U00011da1", "\\U00011da2",
                    "\\U00011da3", "\\U00011da4", "\\U00011da5",
                    "\\U00011da6", "\\U00011da7", "\\U00011da8",
                    "\\U00011da9">>],
       [first |-> <<"0", "0", "0", "1", "6", "a", "6", "0">>, kind |->
                    "decimal",
        tokens |-> <<"\\U00016a60", "\\U00016a61", "\\U00016a62",
                    "\\U00016a63", "\\U00016a64", "\\U00016a65",
                    "\\U00016a66", "\\U00016a67", "\\U00016a68",
                    "\\U00016a69">>],
       [first |-> <<"0", "0", "0", "1", "6", "a", "c", "0">>, kind |->
                    "decimal",
        tokens |-> <<"\\U00016ac0", "\\U00016ac1", "\\U00016ac2",
                    "\\U00016ac3", "\\U00016ac4", "\\U00016ac5",
                    "\\U00016ac6", "\\U00016ac7", "\\U00016ac8",
                    "\\U00016ac9">>],
       [first |-> <<"0", "0", "0", "1", "6", "b", "5", "0">>, kind |->
                    "decimal",
        tokens |-> <<"\\U00016b50", "\\U00016b51", "\\U00016b52",
                    "\\U00016b53", "\\U00016b54", "\\U00016b55",
                    "\\U00016b56", "\\U00016b57", "\\U00016b58",
                    "\\U00016b59">>],
       [first |-> <<"0", "0", "0", "1", "d", "7", "c", "e">>, kind |->
                    "decimal",
        tokens |-> <<"\\U0001d7ce", "\\U0001d7cf", "\\U0001d7d0",
                    "\\U0001d7d1", "\\U0001d7d2", "\\U0001d7d3",
                    "\\U0001d7d4", "\\U0001d7d5", "\\U0001d7d6",
                    "\\U0001d7d7">>],
       [first |-> <<"0", "0", "0", "1", "d", "7", "d", "8">>, kind |->
                    "decimal",
        tokens |-> <<"\\U0001d7d8", "\\U0001d7d9", "\\U0001d7da",
                    "\\U0001d7db", "\\U0001d7dc", "\\U0001d7dd",
                    "\\U0001d7de", "\\U0001d7df", "\\U0001d7e0",
                    "\\U0001d7e1">>],
       [first |-> <<"0", "0", "0", "1", "d", "7", "e", "2">>, kind |->
                    "decimal",
        tokens |-> <<"\\U0001d7e2", "\\U0001d7e3", "\\U0001d7e4",
                    "\\U0001d7e5", "\\U0001d7e6", "\\U0001d7e7",
                    "\\U0001d7e8", "\\U0001d7e9", "\\U0001d7ea",
                    "\\U0001d7eb">>],
       [first |-> <<"0", "0", "0", "1", "d", "7", "e", "c">>, kind |->
                    "decimal",
        tokens |-> <<"\\U0001d7ec", "\\U0001d7ed", "\\U0001d7ee",
                    "\\U0001d7ef", "\\U0001d7f0", "\\U0001d7f1",
                    "\\U0001d7f2", "\\U0001d7f3", "\\U0001d7f4",
                    "\\U0001d7f5">>],
       [first |-> <<"0", "0", "0", "1", "d", "7", "f", "6">>, kind |->
                    "decimal",
        tokens |-> <<"\\U0001d7f6", "\\U0001d7f7", "\\U0001d7f8",
                    "\\U0001d7f9", "\\U0001d7fa", "\\U0001d7fb",
                    "\\U0001d7fc", "\\U0001d7fd", "\\U0001d7fe",
                    "\\U0001d7ff">>],
       [first |-> <<"0", "0", "0", "1", "e", "1", "4", "0">>, kind |->
                    "decimal",
        tokens |-> <<"\\U0001e140", "\\U0001e141", "\\U0001e142",
                    "\\U0001e143", "\\U0001e144", "\\U0001e145",
                    "\\U0001e146", "\\U0001e147", "\\U0001e148",
                    "\\U0001e149">>],
       [first |-> <<"0", "0", "0", "1", "e", "2", "f", "0">>, kind |->
                    "decimal",
        tokens |-> <<"\\U0001e2f0", "\\U0001e2f1", "\\U0001e2f2",
                    "\\U0001e2f3", "\\U0001e2f4", "\\U0001e2f5",
                    "\\U0001e2f6", "\\U0001e2f7", "\\U0001e2f8",
                    "\\U0001e2f9">>],
       [first |-> <<"0", "0", "0", "1", "e", "9", "5", "0">>, kind |->
                    "decimal",
        tokens |-> <<"\\U0001e950", "\\U0001e951", "\\U0001e952",
                    "\\U0001e953", "\\U0001e954", "\\U0001e955",
                    "\\U0001e956", "\\U0001e957", "\\U0001e958",
                    "\\U0001e959">>],
       [first |-> <<"0", "0", "0", "1", "f", "b", "f", "0">>, kind |->
                    "decimal",
        tokens |-> <<"\\U0001fbf0", "\\U0001fbf1", "\\U0001fbf2",
                    "\\U0001fbf3", "\\U0001fbf4", "\\U0001fbf5",
                    "\\U0001fbf6", "\\U0001fbf7", "\\U0001fbf8",
                    "\\U0001fbf9">>] >>

HexDigits == <<"0", "1", "2", "3", "4", "5", "6", "7", "8", "9",
               "a", "b", "c", "d", "e", "f">>
HexValue(h) == CHOOSE v \in 0..15 : HexDigits[v + 1] = h

\* The hexadecimal digits of the code point k after the one written
\* `first`, in a run.
hex_after(first, k) ==
    LET n == Len(first)
        v == 16 * HexValue(first[n - 1]) + HexValue(first[n]) + k
    IN SubSeq(first, 1, n - 2)
       \o <<HexDigits[(v \div 16) + 1], HexDigits[(v % 16) + 1]>>

\* The characters of the runs, each with the kind of its run, its place in
\* the run and the hexadecimal digits of its code point.
CodePoints ==
    With(CodeRuns,
         LAMBDA runs :
             UNION {{[token |-> runs[r].tokens[k],
                      kind |-> runs[r].kind,
                      place |-> k - 1,
                      hex |-> hex_after(runs[r].first, k - 1)] :
                        k \in 1..Len(runs[r].tokens)} : r \in 1..Len(runs)})
PointOf ==
    With(CodePoints,
         LAMBDA points : [c \in {p.token : p \in points} |->
                             CHOOSE p \in points : p.token = c])
CodeTokens == DOMAIN PointOf

\* The escape repr() and ascii() write for a character: \xhh, \uhhhh or
\* \Uhhhhhhhh.
EscapeOf ==
    With(PointOf,
         LAMBDA point :
             [c \in DOMAIN point \cup {"\f"} |->
                 IF c = "\f" THEN <<"\\", "x", "0", "c">>
                 ELSE <<"\\", IF Len(point[c].hex) = 2 THEN "x"
                              ELSE IF Len(point[c].hex) = 4 THEN "u"
                              ELSE "U">>
                      \o point[c].hex])

\* The characters str.isprintable() does not hold for.
Unprintable ==
    With(PointOf,
         LAMBDA point : {c \in DOMAIN point : point[c].kind = "control"}
                        \cup {"\t", "\n", "\r", "\f"})

\* The decimal digits: those of ASCII and those of the other scripts, each
\* with its value (Py_UNICODE_TODECIMAL).
Digits == <<"0", "1", "2", "3", "4", "5", "6", "7", "8", "9">>
DigitValue ==
    With(PointOf,
         LAMBDA point :
             [c \in {Digits[d] : d \in 1..Len(Digits)}
                    \cup {c \in DOMAIN point : point[c].kind = "decimal"} |->
                 IF c \in DOMAIN point THEN point[c].place
                 ELSE CHOOSE d \in 0..9 : Digits[d + 1] = c])
IsDigit(c) == c \in DOMAIN DigitValue

\* The values of the digits of a run of decimal digits.
digit_values(t) == [k \in 1..Len(t) |-> DigitValue[t[k]]]

\* The largest number the model counts to: a run of digits of this value
\* or more has this value.
Huge == 2147483647

RECURSIVE number(_)
\* The value of a run of decimal digits, Huge when it is Huge or more.
number(ds) ==
    IF ds = <<>> THEN 0
    ELSE With(number(SubSeq(ds, 1, Len(ds) - 1)),
              LAMBDA m :
                  IF \/ m > Huge \div 10
                     \/ m = Huge \div 10 /\ ds[Len(ds)] >= Huge % 10
                  THEN Huge
                  ELSE 10 * m + ds[Len(ds)])

\* PY_SSIZE_T_MAX, digit by digit.
SsizeMax == <<9, 2, 2, 3, 3, 7, 2, 0, 3, 6, 8, 5, 4, 7, 7, 5, 8, 0, 7>>

RECURSIVE above(_, _)
\* A sequence of digits of the length of `bound` is above it.
above(ds, bound) ==
    IF ds = <<>> THEN FALSE
    ELSE IF Head(ds) # Head(bound) THEN Head(ds) > Head(bound)
    ELSE above(Tail(ds), Tail(bound))

RECURSIVE significant(_)
\* A run of digits without its leading zeros.
significant(ds) ==
    IF ds # <<>> /\ Head(ds) = 0 THEN significant(Tail(ds)) ELSE ds

\* The value of a run of digits is more than PY_SSIZE_T_MAX: "Too many
\* decimal digits in format string".
too_many_digits(ds) ==
    With(significant(ds),
         LAMBDA u : \/ Len(u) > Len(SsizeMax)
                    \/ Len(u) = Len(SsizeMax) /\ above(u, SsizeMax))

\* The digits a text begins with.
leading_digits(t) ==
    LET others == {k \in 1..Len(t) : ~IsDigit(t[k])}
    IN IF others = {} THEN t
       ELSE SubSeq(t, 1, (CHOOSE k \in others : \A j \in others : k <= j) - 1)

\* The value of a run of digits, -2 for the ValueError of digits that are
\* too many.
digits_value(t) ==
    With(digit_values(t),
         LAMBDA ds : IF too_many_digits(ds) THEN -2 ELSE number(ds))

\* get_integer of the field name parser: the value of a text that is an
\* index, -1 for a text that is none, and -2 for the ValueError of digits
\* that are too many; the text is read from the left.
get_integer(t) ==
    With(leading_digits(t),
         LAMBDA digits :
    With(digits_value(digits),
         LAMBDA n : IF n = -2 THEN -2
                    ELSE IF t = <<>> \/ digits # t THEN -1
                    ELSE n))

\* The first place from i on of a character of cs in s, Len(s) + 1 if none.
find(s, i, cs) ==
    LET hits == {k \in i..Len(s) : s[k] \in cs}
    IN IF hits = {} THEN Len(s) + 1
       ELSE CHOOSE k \in hits : \A j \in hits : k <= j

RECURSIVE joined(_, _, _)
\* The pieces lo..hi of a sequence of texts, one after the other.
joined(pieces, lo, hi) ==
    IF lo > hi THEN <<>>
    ELSE IF lo = hi THEN pieces[lo]
    ELSE joined(pieces, lo, (lo + hi) \div 2)
         \o joined(pieces, (lo + hi) \div 2 + 1, hi)

\* repr(text) of a str: quoted, with backslash, the quote and the
\* characters that are not printable escaped.
repr(text) ==
    LET quote == IF (\E k \in 1..Len(text) : text[k] = "'")
                    /\ ~(\E k \in 1..Len(text) : text[k] = "\"")
                 THEN "\"" ELSE "'"
        escaped(c) ==
            IF c = "\\" THEN <<"\\", "\\">>
            ELSE IF c = quote THEN <<"\\", c>>
            ELSE IF c = "\n" THEN <<"\\", "n">>
            ELSE IF c = "\t" THEN <<"\\", "t">>
            ELSE IF c = "\r" THEN <<"\\", "r">>
            ELSE IF c \in Unprintable THEN EscapeOf[c]
            ELSE <<c>>
    IN <<quote>>
       \o joined([k \in 1..Len(text) |-> escaped(text[k])], 1, Len(text))
       \o <<quote>>

\* The characters outside ASCII of a text, escaped.
ascii_escaped(text) ==
    joined([k \in 1..Len(text) |->
               IF text[k] \in CodeTokens THEN EscapeOf[text[k]]
               ELSE <<text[k]>>], 1, Len(text))

\* ascii(text) of a str: repr(text) with the characters outside ASCII
\* escaped.
ascii(text) == ascii_escaped(repr(text))

\* The value of a replacement field is a str or, for an attribute of a str,
\* another object.  Of an object that is no str the model keeps the text
\* str() gives, the address in it being one piece, and its sort: a "method"
\* or a "wrapper" bound to a str, a "typemethod" bound to the class str, the
\* "static" method, the "class" str, a "tuple" with its items, an "int",
\* the "generic" class type, which takes an index, and any other object,
\* "opaque".
StrValue(text) == [kind |-> "str", text |-> text]
ObjectValue(text) == [kind |-> "object", sort |-> "opaque", text |-> text]
BoundValue(sort, name, self, text) ==
    [kind |-> "object", sort |-> sort, name |-> name, self |-> self,
     text |-> text]
TupleValue(items, text) ==
    [kind |-> "object", sort |-> "tuple", items |-> items, text |-> text]
IntValue(text) == [kind |-> "object", sort |-> "int", text |-> text]

\* The address in the text of an object is one piece.  It stands for the
\* AddressLen characters of the address itself, 0x and twelve hexadecimal
\* digits on the 64-bit Linux build, when the text is measured or cut.
Address == "0xADDRESS"
AddressLen == 14

\* The widest text format_str pads to in the model.
Widest == 100000

\* The outcome of a step the model does not follow: the texts that differ
\* from one method to the next (__doc__, __text_signature__), the
\* dictionary of the class, an attribute of an object two steps from the
\* str, an index into the class type, an int with a format spec, !r or !a
\* of a character outside the alphabet of the model, a width above Widest
\* (the code pads to any width the memory of the machine allows and raises
\* MemoryError beyond), the import of a module the model knows nothing of.
Beyond == [ok |-> FALSE, val |-> Nothing, err |-> "beyond the model"]

\* The attributes of a str: the methods of the object, the slot wrappers,
\* the methods of the type.
StrMethods ==
    {<<"_", "_", "d", "i", "r", "_", "_">>,
     <<"_", "_", "f", "o", "r", "m", "a", "t", "_", "_">>,
     <<"_", "_", "g", "e", "t", "n", "e", "w", "a", "r", "g", "s", "_", "_">>,
     <<"_", "_", "g", "e", "t", "s", "t", "a", "t", "e", "_", "_">>,
     <<"_", "_", "r", "e", "d", "u", "c", "e", "_", "_">>,
     <<"_", "_", "r", "e", "d", "u", "c", "e", "_", "e", "x", "_", "_">>,
     <<"_", "_", "s", "i", "z", "e", "o", "f", "_", "_">>,
     <<"c", "a", "p", "i", "t", "a", "l", "i", "z", "e">>,
     <<"c", "a", "s", "e", "f", "o", "l", "d">>,
     <<"c", "e", "n", "t", "e", "r">>,
     <<"c", "o", "u", "n", "t">>,
     <<"e", "n", "c", "o", "d", "e">>,
     <<"e", "n", "d", "s", "w", "i", "t", "h">>,
     <<"e", "x", "p", "a", "n", "d", "t", "a", "b", "s">>,
     <<"f", "i", "n", "d">>,
     <<"f", "o", "r", "m", "a", "t">>,
     <<"f", "o", "r", "m", "a", "t", "_", "m", "a", "p">>,
     <<"i", "n", "d", "e", "x">>,
     <<"i", "s", "a", "l", "n", "u", "m">>,
     <<"i", "s", "a", "l", "p", "h", "a">>,
     <<"i", "s", "a", "s", "c", "i", "i">>,
     <<"i", "s", "d", "e", "c", "i", "m", "a", "l">>,
     <<"i", "s", "d", "i", "g", "i", "t">>,
     <<"i", "s", "i", "d", "e", "n", "t", "i", "f", "i", "e", "r">>,
     <<"i", "s", "l", "o", "w", "e", "r">>,
     <<"i", "s", "n", "u", "m", "e", "r", "i", "c">>,
     <<"i", "s", "p", "r", "i", "n", "t", "a", "b", "l", "e">>,
     <<"i", "s", "s", "p", "a", "c", "e">>,
     <<"i", "s", "t", "i", "t", "l", "e">>,
     <<"i", "s", "u", "p", "p", "e", "r">>,
     <<"j", "o", "i", "n">>,
     <<"l", "j", "u", "s", "t">>,
     <<"l", "o", "w", "e", "r">>,
     <<"l", "s", "t", "r", "i", "p">>,
     <<"p", "a", "r", "t", "i", "t", "i", "o", "n">>,
     <<"r", "e", "m", "o", "v", "e", "p", "r", "e", "f", "i", "x">>,
     <<"r", "e", "m", "o", "v", "e", "s", "u", "f", "f", "i", "x">>,
     <<"r", "e", "p", "l", "a", "c", "e">>,
     <<"r", "f", "i", "n", "d">>,
     <<"r", "i", "n", "d", "e", "x">>,
     <<"r", "j", "u", "s", "t">>,
     <<"r", "p", "a", "r", "t", "i", "t", "i", "o", "n">>,
     <<"r", "s", "p", "l", "i", "t">>,
     <<"r", "s", "t", "r", "i", "p">>,
     <<"s", "p", "l", "i", "t">>,
     <<"s", "p", "l", "i", "t", "l", "i", "n", "e", "s">>,
     <<"s", "t", "a", "r", "t", "s", "w", "i", "t", "h">>,
     <<"s", "t", "r", "i", "p">>,
     <<"s", "w", "a", "p", "c", "a", "s", "e">>,
     <<"t", "i", "t", "l", "e">>,
     <<"t", "r", "a", "n", "s", "l", "a", "t", "e">>,
     <<"u", "p", "p", "e", "r">>,
     <<"z", "f", "i", "l", "l">>}
StrWrappers ==
    {<<"_", "_", "a", "d", "d", "_", "_">>,
     <<"_", "_", "c", "o", "n", "t", "a", "i", "n", "s", "_", "_">>,
     <<"_", "_", "d", "e", "l", "a", "t", "t", "r", "_", "_">>,
     <<"_", "_", "e", "q", "_", "_">>,
     <<"_", "_", "g", "e", "_", "_">>,
     <<"_", "_", "g", "e", "t", "a", "t", "t", "r", "i", "b", "u", "t", "e", "_", "_">>,
     <<"_", "_", "g", "e", "t", "i", "t", "e", "m", "_", "_">>,
     <<"_", "_", "g", "t", "_", "_">>,
     <<"_", "_", "h", "a", "s", "h", "_", "_">>,
     <<"_", "_", "i", "n", "i", "t", "_", "_">>,
     <<"_", "_", "i", "t", "e", "r", "_", "_">>,
     <<"_", "_", "l", "e", "_", "_">>,
     <<"_", "_", "l", "e", "n", "_", "_">>,
     <<"_", "_", "l", "t", "_", "_">>,
     <<"_", "_", "m", "o", "d", "_", "_">>,
     <<"_", "_", "m", "u", "l", "_", "_">>,
     <<"_", "_", "n", "e", "_", "_">>,
     <<"_", "_", "r", "e", "p", "r", "_", "_">>,
     <<"_", "_", "r", "m", "o", "d", "_", "_">>,
     <<"_", "_", "r", "m", "u", "l", "_", "_">>,
     <<"_", "_", "s", "e", "t", "a", "t", "t", "r", "_", "_">>,
     <<"_", "_", "s", "t", "r", "_", "_">>}
StrTypeMethods ==
    {<<"_", "_", "i", "n", "i", "t", "_", "s", "u", "b", "c", "l", "a", "s", "s", "_", "_">>,
     <<"_", "_", "n", "e", "w", "_", "_">>,
     <<"_", "_", "s", "u", "b", "c", "l", "a", "s", "s", "h", "o", "o", "k", "_", "_">>,
     <<"m", "a", "k", "e", "t", "r", "a", "n", "s">>}

\* The methods of the class str that an object of the class has not.
TypeMethods ==
    {<<"_", "_", "i", "n", "s", "t", "a", "n", "c", "e", "c", "h", "e", "c", "k", "_", "_">>,
     <<"_", "_", "p", "r", "e", "p", "a", "r", "e", "_", "_">>,
     <<"_", "_", "s", "u", "b", "c", "l", "a", "s", "s", "c", "h", "e", "c", "k", "_", "_">>,
     <<"_", "_", "s", "u", "b", "c", "l", "a", "s", "s", "e", "s", "_", "_">>,
     <<"m", "r", "o">>}
TypeWrappers ==
    {<<"_", "_", "c", "a", "l", "l", "_", "_">>,
     <<"_", "_", "o", "r", "_", "_">>,
     <<"_", "_", "r", "o", "r", "_", "_">>}

\* The attributes str takes from object: of the wrappers, of the methods.
ObjectSlots ==
    {<<"_", "_", "d", "e", "l", "a", "t", "t", "r", "_", "_">>,
     <<"_", "_", "i", "n", "i", "t", "_", "_">>,
     <<"_", "_", "s", "e", "t", "a", "t", "t", "r", "_", "_">>}
ObjectOwn ==
    {<<"_", "_", "d", "i", "r", "_", "_">>,
     <<"_", "_", "g", "e", "t", "s", "t", "a", "t", "e", "_", "_">>,
     <<"_", "_", "r", "e", "d", "u", "c", "e", "_", "_">>,
     <<"_", "_", "r", "e", "d", "u", "c", "e", "_", "e", "x", "_", "_">>}

\* The attributes of a method or a wrapper that are themselves wrappers,
\* methods of the object and methods of its type.
ObjectWrappers ==
    {<<"_", "_", "c", "a", "l", "l", "_", "_">>,
     <<"_", "_", "d", "e", "l", "a", "t", "t", "r", "_", "_">>,
     <<"_", "_", "e", "q", "_", "_">>,
     <<"_", "_", "g", "e", "_", "_">>,
     <<"_", "_", "g", "e", "t", "a", "t", "t", "r", "i", "b", "u", "t", "e", "_", "_">>,
     <<"_", "_", "g", "t", "_", "_">>,
     <<"_", "_", "h", "a", "s", "h", "_", "_">>,
     <<"_", "_", "i", "n", "i", "t", "_", "_">>,
     <<"_", "_", "l", "e", "_", "_">>,
     <<"_", "_", "l", "t", "_", "_">>,
     <<"_", "_", "n", "e", "_", "_">>,
     <<"_", "_", "r", "e", "p", "r", "_", "_">>,
     <<"_", "_", "s", "e", "t", "a", "t", "t", "r", "_", "_">>,
     <<"_", "_", "s", "t", "r", "_", "_">>}
ObjectMethods ==
    {<<"_", "_", "d", "i", "r", "_", "_">>,
     <<"_", "_", "f", "o", "r", "m", "a", "t", "_", "_">>,
     <<"_", "_", "g", "e", "t", "s", "t", "a", "t", "e", "_", "_">>,
     <<"_", "_", "r", "e", "d", "u", "c", "e", "_", "_">>,
     <<"_", "_", "r", "e", "d", "u", "c", "e", "_", "e", "x", "_", "_">>,
     <<"_", "_", "s", "i", "z", "e", "o", "f", "_", "_">>}
ObjectTypeMethods ==
    {<<"_", "_", "i", "n", "i", "t", "_", "s", "u", "b", "c", "l", "a", "s", "s", "_", "_">>,
     <<"_", "_", "n", "e", "w", "_", "_">>,
     <<"_", "_", "s", "u", "b", "c", "l", "a", "s", "s", "h", "o", "o", "k", "_", "_">>}

\* The text str() gives such an attribute, up to the address of the object.
BuiltinMethod ==
    <<"<", "b", "u", "i", "l", "t", "-", "i", "n", " ", "m", "e", "t", "h",
      "o", "d", " ">>
MethodWrapper ==
    <<"<", "m", "e", "t", "h", "o", "d", "-", "w", "r", "a", "p", "p", "e",
      "r", " ", "'">>
OfObjectAt(type_name) ==
    <<" ", "o", "f", " ">> \o type_name
    \o <<" ", "o", "b", "j", "e", "c", "t", " ", "a", "t", " ">>
\* The names of the types of the objects.
TypeNames ==
    [str |->
         <<"s", "t", "r">>,
     type |->
         <<"t", "y", "p", "e">>,
     object |->
         <<"o", "b", "j", "e", "c", "t">>,
     builtin |->
         <<"b", "u", "i", "l", "t", "i", "n", "_", "f", "u", "n", "c", "t", "i", "o", "n", "_", "o", "r", "_", "m", "e", "t", "h", "o", "d">>,
     wrapper |->
         <<"m", "e", "t", "h", "o", "d", "-", "w", "r", "a", "p", "p", "e", "r">>]
OfStrObjectAt == OfObjectAt(TypeNames.str)
OfTypeObjectAt == OfObjectAt(TypeNames.type)

\* str(cls) of a class.
ClassText(type_name) ==
    <<"<", "c", "l", "a", "s", "s", " ", "'">> \o type_name \o <<"'", ">">>
ClassStr == ClassText(TypeNames.str)

\* str() of a method and of a slot wrapper in the dictionary of a class.
MethodOf(name, type_name) ==
    <<"<", "m", "e", "t", "h", "o", "d", " ", "'">> \o name
    \o <<"'", " ", "o", "f", " ", "'">> \o type_name
    \o <<"'", " ", "o", "b", "j", "e", "c", "t", "s", ">">>
SlotWrapperOf(name, type_name) ==
    <<"<", "s", "l", "o", "t", " ", "w", "r", "a", "p", "p", "e", "r", " ",
      "'">> \o name
    \o <<"'", " ", "o", "f", " ", "'">> \o type_name
    \o <<"'", " ", "o", "b", "j", "e", "c", "t", "s", ">">>

\* The class str, the class object and None.
ClassValue == [kind |-> "object", sort |-> "class", text |-> ClassStr]
ObjectClass == ObjectValue(ClassText(TypeNames.object))
NoneValue == ObjectValue(<<"N", "o", "n", "e">>)

\* str.__doc__
StrDoc ==
        <<"s", "t", "r", "(", "o", "b", "j", "e", "c", "t", "=", "'", "'", ")",
      " ", "-", ">", " ", "s", "t", "r", "\n", "s", "t", "r", "(", "b",
      "y", "t", "e", "s", "_", "o", "r", "_", "b", "u", "f", "f", "e", "r",
      "[", ",", " ", "e", "n", "c", "o", "d", "i", "n", "g", "[", ",", " ",
      "e", "r", "r", "o", "r", "s", "]", "]", ")", " ", "-", ">", " ", "s",
      "t", "r", "\n", "\n", "C", "r", "e", "a", "t", "e", " ", "a", " ",
      "n", "e", "w", " ", "s", "t", "r", "i", "n", "g", " ", "o", "b", "j",
      "e", "c", "t", " ", "f", "r", "o", "m", " ", "t", "h", "e", " ", "g",
      "i", "v", "e", "n", " ", "o", "b", "j", "e", "c", "t", ".", " ", "I",
      "f", " ", "e", "n", "c", "o", "d", "i", "n", "g", " ", "o", "r",
      "\n", "e", "r", "r", "o", "r", "s", " ", "i", "s", " ", "s", "p",
      "e", "c", "i", "f", "i", "e", "d", ",", " ", "t", "h", "e", "n", " ",
      "t", "h", "e", " ", "o", "b", "j", "e", "c", "t", " ", "m", "u", "s",
      "t", " ", "e", "x", "p", "o", "s", "e", " ", "a", " ", "d", "a", "t",
      "a", " ", "b", "u", "f", "f", "e", "r", "\n", "t", "h", "a", "t",
      " ", "w", "i", "l", "l", " ", "b", "e", " ", "d", "e", "c", "o", "d",
      "e", "d", " ", "u", "s", "i", "n", "g", " ", "t", "h", "e", " ", "g",
      "i", "v", "e", "n", " ", "e", "n", "c", "o", "d", "i", "n", "g", " ",
      "a", "n", "d", " ", "e", "r", "r", "o", "r", " ", "h", "a", "n", "d",
      "l", "e", "r", ".", "\n", "O", "t", "h", "e", "r", "w", "i", "s",
      "e", ",", " ", "r", "e", "t", "u", "r", "n", "s", " ", "t", "h", "e",
      " ", "r", "e", "s", "u", "l", "t", " ", "o", "f", " ", "o", "b", "j",
      "e", "c", "t", ".", "_", "_", "s", "t", "r", "_", "_", "(", ")", " ",
      "(", "i", "f", " ", "d", "e", "f", "i", "n", "e", "d", ")", "\n",
      "o", "r", " ", "r", "e", "p", "r", "(", "o", "b", "j", "e", "c", "t",
      ")", ".", "\n", "e", "n", "c", "o", "d", "i", "n", "g", " ", "d",
      "e", "f", "a", "u", "l", "t", "s", " ", "t", "o", " ", "s", "y", "s",
      ".", "g", "e", "t", "d", "e", "f", "a", "u", "l", "t", "e", "n", "c",
      "o", "d", "i", "n", "g", "(", ")", ".", "\n", "e", "r", "r", "o",
      "r", "s", " ", "d", "e", "f", "a", "u", "l", "t", "s", " ", "t", "o",
      " ", "'", "s", "t", "r", "i", "c", "t", "'", ".">>

\* The names of the attributes with a value of their own.
Dunder ==
    [class |-> <<"_", "_", "c", "l", "a", "s", "s", "_", "_">>,
     doc |-> <<"_", "_", "d", "o", "c", "_", "_">>,
     name |-> <<"_", "_", "n", "a", "m", "e", "_", "_">>,
     qualname |-> <<"_", "_", "q", "u", "a", "l", "n", "a", "m", "e", "_", "_">>,
     self |-> <<"_", "_", "s", "e", "l", "f", "_", "_">>,
     module |-> <<"_", "_", "m", "o", "d", "u", "l", "e", "_", "_">>,
     objclass |-> <<"_", "_", "o", "b", "j", "c", "l", "a", "s", "s", "_", "_">>,
     textsignature |-> <<"_", "_", "t", "e", "x", "t", "_", "s", "i", "g", "n", "a", "t", "u", "r", "e", "_", "_">>,
     base |-> <<"_", "_", "b", "a", "s", "e", "_", "_">>,
     bases |-> <<"_", "_", "b", "a", "s", "e", "s", "_", "_">>,
     mro |-> <<"_", "_", "m", "r", "o", "_", "_">>,
     dict |-> <<"_", "_", "d", "i", "c", "t", "_", "_">>,
     basicsize |-> <<"_", "_", "b", "a", "s", "i", "c", "s", "i", "z", "e", "_", "_">>,
     flags |-> <<"_", "_", "f", "l", "a", "g", "s", "_", "_">>]
ZeroSizes ==
    {<<"_", "_", "d", "i", "c", "t", "o", "f", "f", "s", "e", "t", "_", "_">>,
     <<"_", "_", "i", "t", "e", "m", "s", "i", "z", "e", "_", "_">>,
     <<"_", "_", "w", "e", "a", "k", "r", "e", "f", "o", "f", "f", "s", "e", "t", "_", "_">>}

\* getattr(value, name) of a str.
str_attribute(value, name) ==
    IF name \in StrMethods
    THEN Ok(BoundValue("method", name, value,
                       BuiltinMethod \o name \o OfStrObjectAt
                       \o <<Address, ">">>))
    ELSE IF name \in StrWrappers
    THEN Ok(BoundValue("wrapper", name, value,
                       MethodWrapper \o name \o <<"'">> \o OfStrObjectAt
                       \o <<Address, ">">>))
    ELSE IF name \in StrTypeMethods
    THEN Ok(BoundValue(IF name = <<"m", "a", "k", "e", "t", "r", "a", "n",
                                   "s">>
                       THEN "static" ELSE "typemethod",
                       name, value,
                       BuiltinMethod \o name \o OfTypeObjectAt
                       \o <<Address, ">">>))
    ELSE IF name = Dunder.class THEN Ok(ClassValue)
    ELSE IF name = Dunder.doc THEN Ok(StrValue(StrDoc))
    ELSE Raise("AttributeError")

\* getattr(value, name) of a method or a wrapper of a str.
bound_attribute(value, name) ==
    LET type_name == IF value.sort = "wrapper" THEN TypeNames.wrapper
                     ELSE TypeNames.builtin
    IN
    IF name \in ObjectWrappers
    THEN Ok(ObjectValue(MethodWrapper \o name \o <<"'">>
                        \o OfObjectAt(type_name) \o <<Address, ">">>))
    ELSE IF name \in ObjectMethods
    THEN Ok(ObjectValue(BuiltinMethod \o name \o OfObjectAt(type_name)
                        \o <<Address, ">">>))
    ELSE IF name \in ObjectTypeMethods
    THEN Ok(ObjectValue(BuiltinMethod \o name \o OfTypeObjectAt
                        \o <<Address, ">">>))
    ELSE IF name = Dunder.class THEN Ok(ObjectValue(ClassText(type_name)))
    ELSE IF name = Dunder.name THEN Ok(StrValue(value.name))
    ELSE IF name = Dunder.qualname
    THEN Ok(StrValue((IF value.sort = "wrapper" /\ value.name \in ObjectSlots
                      THEN TypeNames.object ELSE TypeNames.str)
                     \o <<".">> \o value.name))
    ELSE IF name = Dunder.self
    THEN Ok(IF value.sort = "typemethod" THEN ClassValue
            ELSE IF value.sort = "static" THEN NoneValue
            ELSE value.self)
    ELSE IF name = Dunder.module /\ value.sort # "wrapper" THEN Ok(NoneValue)
    ELSE IF name = Dunder.objclass /\ value.sort = "wrapper"
    THEN Ok(IF value.name \in ObjectSlots THEN ObjectClass ELSE ClassValue)
    ELSE IF name \in {Dunder.doc, Dunder.textsignature} THEN Beyond
    ELSE Raise("AttributeError")

\* getattr(value, name) of the class str.
class_attribute(name) ==
    IF name \in StrWrappers
    THEN Ok(ObjectValue(SlotWrapperOf(name, IF name \in ObjectSlots
                                            THEN TypeNames.object ELSE TypeNames.str)))
    ELSE IF name \in StrMethods
    THEN Ok(ObjectValue(MethodOf(name, IF name \in ObjectOwn
                                       THEN TypeNames.object ELSE TypeNames.str)))
    ELSE IF name \in StrTypeMethods \cup TypeMethods
    THEN Ok(ObjectValue(BuiltinMethod \o name \o OfTypeObjectAt
                        \o <<Address, ">">>))
    ELSE IF name \in TypeWrappers
    THEN Ok(ObjectValue(MethodWrapper \o name \o <<"'">> \o OfTypeObjectAt
                        \o <<Address, ">">>))
    ELSE IF name = Dunder.class
    THEN Ok([kind |-> "object", sort |-> "generic",
             text |-> ClassText(TypeNames.type)])
    ELSE IF name = Dunder.base THEN Ok(ObjectClass)
    ELSE IF name = Dunder.bases
    THEN Ok(TupleValue(<<ObjectClass>>,
                       <<"(">> \o ObjectClass.text \o <<",", ")">>))
    ELSE IF name = Dunder.mro
    THEN Ok(TupleValue(<<ClassValue, ObjectClass>>,
                       <<"(">> \o ClassStr \o <<",", " ">>
                       \o ObjectClass.text \o <<")">>))
    ELSE IF name \in {Dunder.name, Dunder.qualname} THEN Ok(StrValue(TypeNames.str))
    ELSE IF name = Dunder.module
    THEN Ok(StrValue(<<"b", "u", "i", "l", "t", "i", "n", "s">>))
    ELSE IF name = Dunder.doc THEN Ok(StrValue(StrDoc))
    ELSE IF name = Dunder.textsignature THEN Ok(NoneValue)
    ELSE IF name = Dunder.basicsize THEN Ok(IntValue(<<"8", "0">>))
    ELSE IF name \in ZeroSizes THEN Ok(IntValue(<<"0">>))
    ELSE IF name = Dunder.flags
    THEN Ok(IntValue(<<"2", "7", "3", "1", "5", "9", "4", "2", "4">>))
    ELSE IF name = Dunder.dict THEN Beyond
    ELSE Raise("AttributeError")

\* getattr(value, name) in a replacement field.
getattribute(value, name) ==
    IF value.kind = "str" THEN str_attribute(value, name)
    ELSE IF value.sort \in {"method", "wrapper", "typemethod", "static"}
    THEN bound_attribute(value, name)
    ELSE IF value.sort = "class" THEN class_attribute(name)
    ELSE Beyond

\* value[name] in a replacement field: an index into a str gives the
\* character there, one into a tuple the item; no other object of the
\* model but the class type takes an index.
getitem(value, name) ==
    With(get_integer(name),
         LAMBDA index :
    IF index = -2 THEN Raise("ValueError")
    ELSE IF value.kind = "object" /\ value.sort = "generic" THEN Beyond
    ELSE IF value.kind = "object" /\ value.sort # "tuple"
    THEN Raise("TypeError")
    ELSE IF index = -1 THEN Raise("TypeError")
    ELSE IF value.kind = "str"
    THEN (IF index < Len(value.text)
          THEN Ok(StrValue(<<value.text[index + 1]>>))
          ELSE Raise("IndexError"))
    ELSE IF index < Len(value.items) THEN Ok(value.items[index + 1])
    ELSE Raise("IndexError"))

RECURSIVE accessors(_, _)
\* FieldNameIterator: the .name and [name] parts after the first name of a
\* field, applied to the value one after the other.
accessors(rest, value) ==
    IF rest = <<>> THEN Ok(value)
    ELSE IF Head(rest) = "."
    THEN With(find(rest, 2, {".", "["}),
              LAMBDA e :
                  IF e = 2 THEN Raise("ValueError")
                  ELSE With(getattribute(value, SubSeq(rest, 2, e - 1)),
                            LAMBDA got :
                                IF got.ok
                                THEN accessors(SubSeq(rest, e, Len(rest)),
                                               got.val)
                                ELSE got))
    ELSE IF Head(rest) = "["
    THEN With(find(rest, 2, {"]"}),
              LAMBDA e :
                  IF e > Len(rest) \/ e = 2 THEN Raise("ValueError")
                  ELSE With(getitem(value, SubSeq(rest, 2, e - 1)),
                            LAMBDA got :
                                IF got.ok
                                THEN accessors(SubSeq(rest, e + 1, Len(rest)),
                                               got.val)
                                ELSE got))
    ELSE Raise("ValueError")

\* get_field_object: the first name of the field is looked up, an index or
\* no name in the positional arguments, of which format gets none, any
\* other name in the keywords; then the accessors are applied.
get_field_object(name, kwargs) ==
    With(find(name, 1, {".", "["}),
         LAMBDA e :
    With(SubSeq(name, 1, e - 1),
         LAMBDA first :
    With(get_integer(first),
         LAMBDA index :
             IF index = -2 THEN Raise("ValueError")
             ELSE IF first = <<>> \/ index # -1 THEN Raise("IndexError")
             ELSE IF first \notin DOMAIN kwargs THEN Raise("KeyError")
             ELSE accessors(SubSeq(name, e, Len(name)),
                            StrValue(kwargs[first])))))

\* The characters repr and ascii are followed on: the printable characters
\* of ASCII but the grave accent, which no string of the model holds, the
\* tab, the line breaks and the form feed, and the characters of CodeRuns.
Alphabet ==
    {" ", "!", "\"", "#", "$", "%", "&", "'", "(", ")", "*", "+", ",",
     "-", ".", "/", "0", "1", "2", "3", "4", "5", "6", "7", "8", "9",
     ":", ";", "<", "=", ">", "?", "@", "A", "B", "C", "D", "E", "F",
     "G", "H", "I", "J", "K", "L", "M", "N", "O", "P", "Q", "R", "S",
     "T", "U", "V", "W", "X", "Y", "Z", "[", "\\", "]", "^", "_",
     "a", "b", "c", "d", "e", "f", "g", "h", "i", "j", "k", "l", "m",
     "n", "o", "p", "q", "r", "s", "t", "u", "v", "w", "x", "y", "z",
     "{", "|", "}", "~"}
    \cup {"\t", "\n", "\r", "\f"} \cup CodeTokens

\* do_conversion: !r, !s and !a give a str, any other character is an error.
do_conversion(value, conversion) ==
    IF conversion = <<>> THEN Ok(value)
    ELSE IF /\ conversion[1] \in {"r", "a"}
            /\ value.kind = "str"
            /\ \E k \in 1..Len(value.text) : value.text[k] \notin Alphabet
    THEN Beyond
    ELSE IF conversion[1] = "r"
    THEN Ok(StrValue(IF value.kind = "str" THEN repr(value.text)
                     ELSE value.text))
    ELSE IF conversion[1] = "a"
    THEN Ok(StrValue(IF value.kind = "str" THEN ascii(value.text)
                     ELSE value.text))
    ELSE IF conversion[1] = "s" THEN Ok(StrValue(value.text))
    ELSE Raise("ValueError")

Aligns == {"<", ">", "=", "^"}
Signs == {"+", "-", " "}

\* n times the character c.
padding(c, n) == [k \in 1..n |-> c]

\* The place after the character at p when it is one of cs, p otherwise.
skip(spec, p, cs) == IF p <= Len(spec) /\ spec[p] \in cs THEN p + 1 ELSE p

\* The place of the first character that is no digit from p on.
digits_end(spec, p) ==
    find(spec, p, {c \in {spec[k] : k \in 1..Len(spec)} : ~IsDigit(c)})

\* The format spec up to its width: [[fill]align][sign][z][#][0].
spec_flags(spec) ==
    With(IF Len(spec) >= 2 /\ spec[2] \in Aligns
         THEN [fill_given |-> TRUE, fill |-> spec[1], align |-> spec[2],
               next |-> 3]
         ELSE IF spec[1] \in Aligns
         THEN [fill_given |-> FALSE, fill |-> " ", align |-> spec[1],
               next |-> 2]
         ELSE [fill_given |-> FALSE, fill |-> " ", align |-> "<",
               next |-> 1],
         LAMBDA a :
    With(skip(spec, a.next, Signs),
         LAMBDA p2 :
    With(skip(spec, skip(spec, p2, {"z"}), {"#"}),
         LAMBDA p4 :
    With(IF a.fill_given THEN p4 ELSE skip(spec, p4, {"0"}),
         LAMBDA p5 :
             [fill |-> IF p5 # p4 THEN "0" ELSE a.fill,
              align |-> a.align,
              refused |-> p4 # a.next \/ a.align = "=",
              next |-> p5]))))

\* The format spec from its width on: [width][,][_][.precision][type].
spec_sizes(spec, p5) ==
    With(digits_end(spec, p5),
         LAMBDA p6 :
    With(skip(spec, skip(spec, p6, {","}), {"_"}),
         LAMBDA p8 :
    With(IF p8 <= Len(spec) /\ spec[p8] = "." THEN digits_end(spec, p8 + 1)
         ELSE p8,
         LAMBDA p9 :
    With(IF p6 = p5 THEN -1 ELSE digits_value(SubSeq(spec, p5, p6 - 1)),
         LAMBDA width :
    With(IF p9 > p8 + 1 THEN digits_value(SubSeq(spec, p8 + 1, p9 - 1))
         ELSE -1,
         LAMBDA precision :
             [width |-> width,
              precision |-> precision,
              refused |-> \/ width = -2
                          \/ precision = -2
                          \/ p8 # p6
                          \/ p9 = p8 + 1
                          \/ p9 < Len(spec)
                          \/ p9 = Len(spec) /\ spec[p9] # "s"])))))

\* len(text): every piece is one character but the address of an object.
length(text) ==
    Len(text)
    + (AddressLen - 1) * Cardinality({k \in 1..Len(text) : text[k] = Address})

RECURSIVE first_characters(_, _)
\* text[:n] of a text that holds an address: of an address cut short the
\* 0, the 0x, or an address of fewer digits are left.
first_characters(text, n) ==
    IF n <= 0 \/ text = <<>> THEN <<>>
    ELSE IF Head(text) # Address
    THEN <<Head(text)>> \o first_characters(Tail(text), n - 1)
    ELSE IF n = 1 THEN <<"0">>
    ELSE IF n = 2 THEN <<"0", "x">>
    ELSE <<Address>> \o first_characters(Tail(text), n - AddressLen)

\* text[:n]
cut_str(text, n) ==
    IF \E k \in 1..Len(text) : text[k] = Address
    THEN first_characters(text, n) ELSE SubSeq(text, 1, n)

\* The text cut to the precision and padded to the width.
pad_str(text, fill, align, width, precision) ==
    With(length(text),
         LAMBDA size :
    With(IF precision >= 0 /\ size >= precision
         THEN [text |-> cut_str(text, precision), size |-> precision]
         ELSE [text |-> text, size |-> size],
         LAMBDA cut :
    With(IF width > cut.size THEN width - cut.size ELSE 0,
         LAMBDA room :
    With(IF align = ">" THEN room
         ELSE IF align = "^" THEN room \div 2 ELSE 0,
         LAMBDA lpad :
             padding(fill, lpad) \o cut.text \o padding(fill, room - lpad)))))

\* format(text, spec) of a str with a format spec
\* [[fill]align][sign][z][#][0][width][,][_][.precision][type]: the text cut
\* to the precision and padded to the width.  A sign, z, #, a separator,
\* the alignment = and a type other than s are errors for a str.
format_str(text, spec) ==
    IF spec = <<>> THEN Ok(text)
    ELSE
    With(spec_flags(spec),
         LAMBDA flags :
    With(spec_sizes(spec, flags.next),
         LAMBDA sizes :
             IF flags.refused \/ sizes.refused THEN Raise("ValueError")
             ELSE IF sizes.width > Widest THEN Beyond
             ELSE Ok(pad_str(text, flags.fill, flags.align, sizes.width,
                             sizes.precision))))

\* render_field: format(value, spec); an object that is no str takes only
\* the empty spec.
render_field(value, spec) ==
    IF value.kind = "str" THEN format_str(value.text, spec)
    ELSE IF spec = <<>> THEN Ok(value.text)
    ELSE IF value.sort = "int" THEN Beyond
    ELSE Raise("TypeError")

RECURSIVE field_name_end(_, _)
\* parse_field: the place of the character that ends the name of the field
\* begun at j, one of } : and !; 0 for a { in the name, Len(s) + 1 when the
\* text ends first.  What is between [ and ] is part of the name.
field_name_end(s, j) ==
    IF j > Len(s) THEN Len(s) + 1
    ELSE IF s[j] = "{" THEN 0
    ELSE IF s[j] = "[" THEN
         (IF find(s, j + 1, {"]"}) > Len(s) THEN Len(s) + 1
          ELSE field_name_end(s, find(s, j + 1, {"]"}) + 1))
    ELSE IF s[j] \in {"}", ":", "!"} THEN j
    ELSE field_name_end(s, j + 1)

RECURSIVE spec_end(_, _, _)
\* parse_field: the place of the } that closes the field whose format spec
\* begins at p, braces within the spec being counted; 0 if there is none.
spec_end(s, p, count) ==
    IF p > Len(s) THEN 0
    ELSE IF s[p] = "{" THEN spec_end(s, p + 1, count + 1)
    ELSE IF s[p] = "}"
    THEN (IF count = 1 THEN p ELSE spec_end(s, p + 1, count - 1))
    ELSE spec_end(s, p + 1, count)

Field(name, conversion, spec, next) ==
    Ok([name |-> name, conversion |-> conversion, spec |-> spec, next |-> next])

\* parse_field on the field that begins at i, after its {: the name, the
\* conversion, the format spec and the place after its }, or ValueError.
parse_field(s, i) ==
    LET with_spec(name, conversion, p) ==
            With(spec_end(s, p, 1),
                 LAMBDA e : IF e = 0 THEN Raise("ValueError")
                            ELSE Field(name, conversion,
                                       SubSeq(s, p, e - 1), e + 1))
    IN With(field_name_end(s, i),
            LAMBDA j :
                IF j = 0 \/ j > Len(s) THEN Raise("ValueError")
                ELSE IF s[j] = "}"
                THEN Field(SubSeq(s, i, j - 1), <<>>, <<>>, j + 1)
                ELSE IF s[j] = ":"
                THEN with_spec(SubSeq(s, i, j - 1), <<>>, j + 1)
                ELSE IF j + 2 > Len(s) THEN Raise("ValueError")
                ELSE IF s[j + 2] = "}"
                THEN Field(SubSeq(s, i, j - 1), <<s[j + 1]>>, <<>>, j + 3)
                ELSE IF s[j + 2] # ":" THEN Raise("ValueError")
                ELSE with_spec(SubSeq(s, i, j - 1), <<s[j + 1]>>, j + 3))

RECURSIVE build_string(_, _, _, _)
RECURSIVE output_markup(_, _, _)
RECURSIVE after_field(_, _, _, _, _, _)
\* output_markup: the value of the field is looked up and converted, the
\* format spec is built when it holds fields, and the value is formatted.
output_markup(field, kwargs, depth) ==
    With(get_field_object(field.name, kwargs),
         LAMBDA obj :
             IF ~obj.ok THEN obj
             ELSE With(do_conversion(obj.val, field.conversion),
                       LAMBDA conv :
                           IF ~conv.ok THEN conv
                           ELSE With(IF \E k \in 1..Len(field.spec) :
                                           field.spec[k] = "{"
                                     THEN build_string(field.spec, 1, kwargs,
                                                       depth - 1)
                                     ELSE Ok(field.spec),
                                     LAMBDA spec :
                                         IF ~spec.ok THEN spec
                                         ELSE render_field(conv.val,
                                                           spec.val))))

\* build_string from place i of s on: the text up to the next brace is
\* copied, {{ and }} give one brace, a brace alone is an error, and a field
\* is parsed, looked up, converted and formatted; a format spec that holds
\* fields is built first, one level deep.  The first error met ends it.
build_string(s, i, kwargs, depth) ==
    IF depth <= 0 THEN Raise("ValueError")
    ELSE
    With(find(s, i, {"{", "}"}),
         LAMBDA b :
             IF b > Len(s) THEN Ok(SubSeq(s, i, Len(s)))
             ELSE IF b = Len(s) THEN Raise("ValueError")
             ELSE IF s[b + 1] = s[b]
             THEN With(build_string(s, b + 2, kwargs, depth),
                       LAMBDA rest :
                           IF rest.ok THEN Ok(SubSeq(s, i, b) \o rest.val)
                           ELSE rest)
             ELSE IF s[b] = "}" THEN Raise("ValueError")
             ELSE With(parse_field(s, b + 1),
                       LAMBDA field : after_field(s, i, b, field, kwargs, depth)))

\* build_string after the field found at b was parsed: the field is shown
\* and the rest of the text is built.
after_field(s, i, b, field, kwargs, depth) ==
    IF ~field.ok THEN field
    ELSE With(output_markup(field.val, kwargs, depth),
              LAMBDA shown :
                  IF ~shown.ok THEN shown
                  ELSE With(build_string(s, field.val.next, kwargs, depth),
                            LAMBDA rest :
                                IF rest.ok
                                THEN Ok(SubSeq(s, i, b - 1) \o shown.val
                                        \o rest.val)
                                ELSE rest))

\* str.format(**kwargs) on a template.
format(s, kwargs) ==
    With(<<chars(s), kwargs>>,
         LAMBDA given : build_string(given[1], 1, given[2], 2))

\* The keywords every format call of the factory passes.
FormatArgs(reqs) == [k \in {Requirements} |-> reqs]

RECURSIVE join(_, _)
\* sep.join(parts)
join(sep, parts) ==
    IF parts = <<>> THEN <<>>
    ELSE IF Len(parts) = 1 THEN parts[1]
    ELSE parts[1] \o sep \o join(sep, Tail(parts))

\* pathlib drops the empty components of a path and those that are ".".
PathComponent(c) == IF c = <<>> \/ c = <<".">> THEN <<>> ELSE <<c>>

RECURSIVE path_parts(_, _)
\* The components of the rest p of a path, `cur` being the characters read
\* since the last "/".
path_parts(p, cur) ==
    IF p = <<>> THEN PathComponent(cur)
    ELSE IF Head(p) = "/"
         THEN PathComponent(cur) \o path_parts(Tail(p), <<>>)
         ELSE path_parts(Tail(p), Append(cur, Head(p)))

\* pathlib.Path(p).name: the last component of p, "" if there is none.
path_name(p) ==
    With(path_parts(p, <<>>),
         LAMBDA parts : IF parts = <<>> THEN <<>> ELSE parts[Len(parts)])

----------------------------------------------------------------------------
(* src/src/agents.py: tools *)

\* A module name is the sequence of its characters, a run of characters
\* other than the dot written as one piece: 'src.tools' is
\* <<"src", ".", "tools">>, '.x' is <<".", "x">> and '' is <<>>.
ToolsModule == <<"src", ".", "tools">>

\* A callable is known by the module that defines it and its name.
Callable(module, name) == [src |-> module, name |-> name]

\* TOOL_REGISTRY
TOOL_REGISTRY == [n \in {"save_to_file"} |-> Callable(ToolsModule, n)]

\* The modules of the program, each with the public callables dir() finds
\* in it and, for each, the module the callable comes from: what the module
\* defines and what its from ... import lines bring in (the modules a plain
\* import brings in, yaml or importlib, are not callable).  The package
\* src itself has none.
From(module, names) == [n \in names |-> module]
ProgramModules ==
    <<"src">> :> <<>>
    @@ ToolsModule :>
          (From(<<"pathlib">>, {"Path"})
           @@ From(ToolsModule, {"save_to_file"}))
    @@ <<"src", ".", "agents">> :>
          (From(<<"pathlib">>, {"Path"})
           @@ From(<<"typing">>, {"Dict", "Any", "List", "Optional"})
           @@ From(<<"google", ".", "adk", ".", "agents">>, {"Agent"})
           @@ From(ToolsModule, {"save_to_file"})
           @@ From(<<"src", ".", "agents">>, {"AgentFactory"}))
    @@ <<"src", ".", "orchestrator">> :>
          (From(<<"pathlib">>, {"Path"})
           @@ From(<<"google", ".", "adk", ".", "agents">>,
                   {"SequentialAgent", "ParallelAgent"})
           @@ From(<<"google", ".", "adk", ".", "runners">>,
                   {"InMemoryRunner"})
           @@ From(<<"src", ".", "agents">>, {"AgentFactory"})
           @@ From(<<"src", ".", "orchestrator">>, {"EngineeringTeam"}))
    @@ <<"src", ".", "main">> :>
          (From(<<"pathlib">>, {"Path"})
           @@ From(<<"src", ".", "orchestrator">>, {"EngineeringTeam"})
           @@ From(<<"src", ".", "main">>,
                   {"parse_args", "get_requirements", "run"}))

\* Two modules of the standard library with their public callables
\* (CPython 3.11 on Linux), each known by the module it is reached from.
LibraryModules ==
    <<"json">> :>
        {"JSONDecodeError", "JSONDecoder", "JSONEncoder", "detect_encoding",
         "dump", "dumps", "load", "loads"}
    @@ <<"os">> :>
        {
         "DirEntry", "GenericAlias", "Mapping", "MutableMapping",
         "PathLike", "WCOREDUMP", "WEXITSTATUS", "WIFCONTINUED",
         "WIFEXITED", "WIFSIGNALED", "WIFSTOPPED", "WSTOPSIG", "WTERMSIG",
         "abort", "access", "chdir", "chmod", "chown", "chroot", "close",
         "closerange", "confstr", "copy_file_range", "cpu_count", "ctermid",
         "device_encoding", "dup", "dup2", "error", "eventfd",
         "eventfd_read", "eventfd_write", "execl", "execle", "execlp",
         "execlpe", "execv", "execve", "execvp", "execvpe", "fchdir",
         "fchmod", "fchown", "fdatasync", "fdopen", "fork", "forkpty",
         "fpathconf", "fsdecode", "fsencode", "fspath", "fstat", "fstatvfs",
         "fsync", "ftruncate", "fwalk", "get_blocking", "get_exec_path",
         "get_inheritable", "get_terminal_size", "getcwd", "getcwdb",
         "getegid", "getenv", "getenvb", "geteuid", "getgid",
         "getgrouplist", "getgroups", "getloadavg", "getlogin", "getpgid",
         "getpgrp", "getpid", "getppid", "getpriority", "getrandom",
         "getresgid", "getresuid", "getsid", "getuid", "getxattr",
         "initgroups", "isatty", "kill", "killpg", "lchown", "link",
         "listdir", "listxattr", "lockf", "login_tty", "lseek", "lstat",
         "major", "makedev", "makedirs", "memfd_create", "minor", "mkdir",
         "mkfifo", "mknod", "nice", "open", "openpty", "pathconf",
         "pidfd_open", "pipe", "pipe2", "popen", "posix_fadvise",
         "posix_fallocate", "posix_spawn", "posix_spawnp", "pread",
         "preadv", "putenv", "pwrite", "pwritev", "read", "readlink",
         "readv", "register_at_fork", "remove", "removedirs", "removexattr",
         "rename", "renames", "replace", "rmdir", "scandir",
         "sched_get_priority_max", "sched_get_priority_min",
         "sched_getaffinity", "sched_getparam", "sched_getscheduler",
         "sched_param", "sched_rr_get_interval", "sched_setaffinity",
         "sched_setparam", "sched_setscheduler", "sched_yield", "sendfile",
         "set_blocking", "set_inheritable", "setegid", "seteuid", "setgid",
         "setgroups", "setpgid", "setpgrp", "setpriority", "setregid",
         "setresgid", "setresuid", "setreuid", "setsid", "setuid",
         "setxattr", "spawnl", "spawnle", "spawnlp", "spawnlpe", "spawnv",
         "spawnve", "spawnvp", "spawnvpe", "splice", "stat", "stat_result",
         "statvfs", "statvfs_result", "strerror", "symlink", "sync",
         "sysconf", "system", "tcgetpgrp", "tcsetpgrp", "terminal_size",
         "times", "times_result", "truncate", "ttyname", "umask", "uname",
         "uname_result", "unlink", "unsetenv", "urandom", "utime", "wait",
         "wait3", "wait4", "waitid", "waitid_result", "waitpid",
         "waitstatus_to_exitcode", "walk", "write", "writev"}

\* The modules of custom tools a deployment adds, with their public
\* callables.
CustomModules ==
    <<"custom_tools">> :> {"save_to_file", "lint"}
    @@ <<"lint_tools">> :> {"lint"}

\* The modules importlib can import, each with its public callables.
ImportableModules ==
    [m \in DOMAIN ProgramModules |-> DOMAIN ProgramModules[m]]
    @@ LibraryModules @@ CustomModules

\* The callable a public name of an importable module is bound to.
ModuleCallable(module, name) ==
    Callable(IF module \in DOMAIN ProgramModules
             THEN ProgramModules[module][name] ELSE module, name)

\* The modules importlib finds and whose body raises, with what it raises.
ImportFailures == [m \in {<<"broken_tools">>} |-> "RuntimeError"]

\* The names importlib finds no module for.
MissingModules == {<<"missing_tools">>}

\* importlib.import_module(module_name), called without a package: a name
\* that starts with a dot is a relative name and raises TypeError, the
\* empty name raises ValueError, a module that is found gives its public
\* callables or what its body raises, and a name no module is found for
\* raises ModuleNotFoundError, an ImportError.  Whether any other name is
\* found depends on what is installed, which the model does not follow.
import_module(module_name) ==
    IF module_name # <<>> /\ Head(module_name) = "."
    THEN Raise("TypeError")
    ELSE IF module_name = <<>> THEN Raise("ValueError")
    ELSE IF module_name \in DOMAIN ImportableModules
    THEN Ok(ImportableModules[module_name])
    ELSE IF module_name \in DOMAIN ImportFailures
    THEN Raise(ImportFailures[module_name])
    ELSE IF module_name \in MissingModules THEN Raise("ImportError")
    ELSE Beyond

\* AgentFactory._load_custom_tools, the cache miss: import the module and
\* store a new dict of its public callables; ImportError becomes ValueError
\* and any other exception leaves the method as it is.  A dict is an
\* object: the one built by the n-th import of a module is told from the
\* one built by another import by its id.
import_and_store(cache, imps, module_name) ==
    LET counted == [m \in DOMAIN imps \cup {module_name} |->
                       IF m = module_name
                       THEN (IF m \in DOMAIN imps THEN imps[m] ELSE 0) + 1
                       ELSE imps[m]]
        module == import_module(module_name)
    IN IF module.ok
       THEN LET tools == [id |-> <<module_name, counted[module_name]>>,
                          map |-> [n \in module.val |->
                                       ModuleCallable(module_name, n)]]
            IN [ret |-> Ok(tools),
                cache |-> [m \in DOMAIN cache \cup {module_name} |->
                              IF m = module_name THEN tools ELSE cache[m]],
                imports |-> counted]
       ELSE [ret |-> IF module.err = "ImportError" THEN Raise("ValueError")
                     ELSE module,
             cache |-> cache, imports |-> counted]

\* A fault for load_custom_tools: the cache is never consulted.
load_custom_tools_uncached(cache, imps, module_name) ==
    import_and_store(cache, imps, module_name)

\* AgentFactory._load_custom_tools
load_custom_tools(cache, imps, module_name) ==
    IF module_name \in DOMAIN cache
    THEN [ret |-> Ok(cache[module_name]), cache |-> cache, imports |-> imps]
    ELSE import_and_store(cache, imps, module_name)

\* A fault for resolve_loop: the registry is looked up before the custom tools.
RECURSIVE resolve_loop_registry_first(_, _)
resolve_loop_registry_first(tool_names, custom_map) ==
    IF tool_names = <<>> THEN Ok(<<>>)
    ELSE LET tool_name == Head(tool_names)
             then(tool) ==
                 With(resolve_loop_registry_first(Tail(tool_names), custom_map),
                      LAMBDA rest : IF rest.ok THEN Ok(<<tool>> \o rest.val)
                                    ELSE rest)
         IN IF tool_name \in DOMAIN TOOL_REGISTRY
            THEN then(TOOL_REGISTRY[tool_name])
            ELSE IF tool_name \in DOMAIN custom_map
            THEN then(custom_map[tool_name])
            ELSE Raise("ValueError")

\* The loop of _resolve_tools over tool_names, custom tools first.
RECURSIVE resolve_loop(_, _)
resolve_loop(tool_names, custom_map) ==
    IF tool_names = <<>> THEN Ok(<<>>)
    ELSE LET tool_name == Head(tool_names)
             then(tool) ==
                 With(resolve_loop(Tail(tool_names), custom_map),
                      LAMBDA rest : IF rest.ok THEN Ok(<<tool>> \o rest.val)
                                    ELSE rest)
         IN IF tool_name \in DOMAIN custom_map
            THEN then(custom_map[tool_name])
            ELSE IF tool_name \in DOMAIN TOOL_REGISTRY
            THEN then(TOOL_REGISTRY[tool_name])
            ELSE Raise("ValueError")

\* The empty dict custom_tools starts as.
NoTools == [id |-> << <<"local">>, 0>>, map |-> <<>>]

\* The loop of _resolve_tools on tool_names, None or a list: iterating
\* None raises TypeError.
resolve_names(tool_names, custom_map) ==
    IF tool_names = Nothing THEN Raise("TypeError")
    ELSE resolve_loop(tool_names.some, custom_map)

\* AgentFactory._resolve_tools.  custom_tools_module is None or a str, the
\* empty str or a module name; `used` is the custom_tools dict the names
\* were looked up in.
resolve_tools(cache, imps, tool_names, custom_tools_module) ==
    IF custom_tools_module \in {Nothing, Some(<<>>)}
    THEN [ret |-> resolve_names(tool_names, NoTools.map), used |-> NoTools,
          cache |-> cache, imports |-> imps]
    ELSE With(load_custom_tools(cache, imps, custom_tools_module.some),
              LAMBDA loaded :
                  IF loaded.ret.ok
                  THEN [ret |-> resolve_names(tool_names, loaded.ret.val.map),
                        used |-> loaded.ret.val,
                        cache |-> loaded.cache, imports |-> loaded.imports]
                  ELSE [ret |-> loaded.ret, used |-> NoTools,
                        cache |-> loaded.cache, imports |-> loaded.imports])

----------------------------------------------------------------------------
(* src/src/agents.py: instructions *)

\* The fixed pieces of text _build_instruction writes, one character each.
RolePrefix == "\nYour role: "
GoalPrefix == "\nYour goal: "
TaskPrefix == "\nTask: "
ExpectedPrefix == "\nExpected output: "
SavePrefix == "\n\nWhen you complete your work, save it using the save_to_file tool with filename \""
SaveSuffix == "\"."

\* tasks_config[task_name] on the ordered dict.
task_of(tcfgs, task_name) ==
    (CHOOSE i \in 1..Len(tcfgs) : tcfgs[i].name = task_name)
task_cfg(tcfgs, task_name) == tcfgs[task_of(tcfgs, task_name)].cfg
task_names(tcfgs) == {tcfgs[i].name : i \in 1..Len(tcfgs)}

\* One "if key in config" block of _build_instruction: no part when the key
\* is absent, else the stripped and formatted text after its prefix.  A
\* field is None (a YAML null) or a str, and None has no strip.
section(cfg, key, prefix, reqs) ==
    IF key \notin DOMAIN cfg THEN Ok(<<>>)
    ELSE IF cfg[key] = Nothing THEN Raise("AttributeError")
    ELSE With(format(strip(cfg[key].some), FormatArgs(reqs)),
              LAMBDA text : IF text.ok THEN Ok(<<prefix \o text.val>>) ELSE text)

\* The output_file block: the directive names Path(output_file).name.
save_section(cfg, reqs) ==
    IF "output_file" \notin DOMAIN cfg THEN Ok(<<>>)
    ELSE IF cfg["output_file"] = Nothing THEN Raise("AttributeError")
    ELSE With(format(strip(cfg["output_file"].some), FormatArgs(reqs)),
              LAMBDA text :
                  IF text.ok
                  THEN Ok(<< <<SavePrefix>> \o path_name(text.val) \o <<SaveSuffix>> >>)
                  ELSE text)

\* The blocks of _build_instruction in the order the code runs them.
instruction_sections(agent_config, task_config, reqs) ==
    << section(agent_config, "backstory", <<>>, reqs),
       section(agent_config, "role", <<RolePrefix>>, reqs),
       section(agent_config, "goal", <<GoalPrefix>>, reqs),
       section(task_config, "description", <<TaskPrefix>>, reqs),
       section(task_config, "expected_output", <<ExpectedPrefix>>, reqs),
       save_section(task_config, reqs) >>

RECURSIVE concat_parts(_)
\* instruction_parts after the blocks ran, or the first exception raised.
concat_parts(outcomes) ==
    IF outcomes = <<>> THEN Ok(<<>>)
    ELSE IF ~Head(outcomes).ok THEN Head(outcomes)
    ELSE With(concat_parts(Tail(outcomes)),
              LAMBDA rest : IF rest.ok THEN Ok(Head(outcomes).val \o rest.val)
                            ELSE rest)

\* AgentFactory._build_instruction
build_instruction(acfgs, tcfgs, agent_name, task_name, reqs) ==
    With(instruction_sections(acfgs[agent_name], task_cfg(tcfgs, task_name), reqs),
         LAMBDA outcomes :
             With(concat_parts(outcomes),
                  LAMBDA parts : IF parts.ok THEN Ok(join(<<"\n">>, parts.val))
                                 ELSE parts))

----------------------------------------------------------------------------
(* src/src/agents.py: agents *)

\* dict.get(key, default)
get(d, key, default) == IF key \in DOMAIN d THEN d[key] ELSE default

\* The default of agent_config.get('model', ...), one character.
DefaultModel == <<"gemini-2.0-flash-exp">>

\* AgentFactory.create_agent: the Agent built, or the exception raised, with
\* the cache and import counts the call leaves behind.  agent_name is the
\* 'agent' of a task, None or a str; the keys of agents.yaml are strs.
create_agent(acfgs, tcfgs, cache, imps, agent_name, task_name, reqs) ==
    IF agent_name = Nothing \/ agent_name.some \notin DOMAIN acfgs
    THEN [ret |-> Raise("ValueError"), cache |-> cache, imports |-> imps]
    ELSE IF task_name \notin task_names(tcfgs)
    THEN [ret |-> Raise("ValueError"), cache |-> cache, imports |-> imps]
    ELSE
    LET agent_config == acfgs[agent_name.some]
        resolved(description, instruction) ==
            With(resolve_tools(cache, imps,
                               get(agent_config, "tools", Some(<<>>)),
                               get(agent_config, "custom_tools_module", Nothing)),
                 LAMBDA tools :
                     IF ~tools.ret.ok
                     THEN [ret |-> tools.ret, cache |-> tools.cache,
                           imports |-> tools.imports]
                     ELSE [ret |-> Ok([kind |-> "agent",
                               name |-> agent_name.some,
                               model |-> get(agent_config, "model", DefaultModel),
                               description |-> description,
                               instruction |-> instruction,
                               tools |-> tools.ret.val,
                               output_key |-> get(agent_config, "output_key",
                                                  agent_name.some)]),
                           cache |-> tools.cache, imports |-> tools.imports])
        instructed(description) ==
            With(build_instruction(acfgs, tcfgs, agent_name.some, task_name,
                                   reqs),
                 LAMBDA instruction :
                     IF ~instruction.ok
                     THEN [ret |-> instruction, cache |-> cache, imports |-> imps]
                     ELSE resolved(description, instruction.val))
    IN With(IF get(agent_config, "role", Some(<<>>)) = Nothing
            THEN Raise("AttributeError")
            ELSE format(strip(get(agent_config, "role", Some(<<>>)).some),
                        FormatArgs(reqs)),
            LAMBDA description :
                IF ~description.ok
                THEN [ret |-> description, cache |-> cache, imports |-> imps]
                ELSE instructed(description.val))

\* dict[key] = value on an ordered dict kept as a sequence of <<key, value>>:
\* a key already there keeps its place and takes the new value.
dict_set(d, key, value) ==
    IF \E i \in 1..Len(d) : d[i][1] = key
    THEN [i \in 1..Len(d) |-> IF d[i][1] = key THEN <<key, value>> ELSE d[i]]
    ELSE Append(d, <<key, value>>)

RECURSIVE build_mapping(_, _)
\* The first loop of create_all_agents: agent_task_mapping from the tasks
\* that have an 'agent' field, scanned in order.
build_mapping(tcfgs, mapping) ==
    IF tcfgs = <<>> THEN mapping
    ELSE With(IF "agent" \in DOMAIN Head(tcfgs).cfg
              THEN dict_set(mapping, Head(tcfgs).cfg["agent"], Head(tcfgs).name)
              ELSE mapping,
              LAMBDA next : build_mapping(Tail(tcfgs), next))

\* agent_task_mapping of create_all_agents
agent_task_mapping(tcfgs) == build_mapping(tcfgs, <<>>)

RECURSIVE create_loop_lenient(_, _, _, _, _, _)
\* A fault for create_loop: a worker that cannot be created is skipped.
create_loop_lenient(acfgs, tcfgs, st, mapping, agents, reqs) ==
    IF mapping = <<>>
    THEN [ret |-> Ok(agents), agents |-> agents,
          cache |-> st.cache, imports |-> st.imports]
    ELSE With(create_agent(acfgs, tcfgs, st.cache, st.imports,
                           Head(mapping)[1], Head(mapping)[2], reqs),
              LAMBDA made :
                  With(<< [cache |-> made.cache, imports |-> made.imports],
                          Tail(mapping),
                          IF made.ret.ok
                          THEN [n \in DOMAIN agents
                                       \cup {Head(mapping)[1].some} |->
                                   IF n = Head(mapping)[1].some
                                   THEN made.ret.val ELSE agents[n]]
                          ELSE agents >>,
                       LAMBDA next :
                           create_loop_lenient(acfgs, tcfgs, next[1], next[2],
                                               next[3], reqs)))

RECURSIVE create_loop(_, _, _, _, _, _)
\* The second loop of create_all_agents.  An exception of create_agent
\* leaves the function: `agents` is then the local dict at that moment.
create_loop(acfgs, tcfgs, st, mapping, agents, reqs) ==
    IF mapping = <<>>
    THEN [ret |-> Ok(agents), agents |-> agents,
          cache |-> st.cache, imports |-> st.imports]
    ELSE With(create_agent(acfgs, tcfgs, st.cache, st.imports,
                           Head(mapping)[1], Head(mapping)[2], reqs),
              LAMBDA made :
                  IF made.ret.ok
                  THEN With(<< [cache |-> made.cache, imports |-> made.imports],
                               Tail(mapping),
                               [n \in DOMAIN agents
                                    \cup {Head(mapping)[1].some} |->
                                   IF n = Head(mapping)[1].some
                                   THEN made.ret.val ELSE agents[n]] >>,
                            LAMBDA next :
                                create_loop(acfgs, tcfgs, next[1], next[2],
                                            next[3], reqs))
                  ELSE [ret |-> made.ret, agents |-> agents,
                        cache |-> made.cache, imports |-> made.imports])

\* AgentFactory.create_all_agents
create_all_agents(acfgs, tcfgs, cache, imps, reqs) ==
    With(agent_task_mapping(tcfgs),
         LAMBDA mapping :
             create_loop(acfgs, tcfgs, [cache |-> cache, imports |-> imps],
                         mapping, <<>>, reqs))

----------------------------------------------------------------------------
(* src/src/orchestrator.py: composition *)

\* The keys __init__ reads from agents_dict: the lead, then the three
\* members of the implementation team in the order of sub_agents.
LeadRole == "engineering_lead"
TailRoles == <<"backend_engineer", "frontend_engineer", "test_engineer">>
ExpectedRoles == {LeadRole} \cup {TailRoles[i] : i \in 1..Len(TailRoles)}

\* A fault for compose: the lead is placed in the parallel group.
compose_flat(agents) ==
    IF \E r \in ExpectedRoles : r \notin DOMAIN agents
    THEN Raise("KeyError")
    ELSE Ok([kind |-> "sequential", name |-> "engineering_team",
             sub_agents |-> <<
                 [kind |-> "parallel", name |-> "implementation_team",
                  sub_agents |-> <<agents[LeadRole]>> \o
                      [i \in 1..Len(TailRoles) |-> agents[TailRoles[i]]]] >>])

\* A fault for compose: a role missing from agents_dict is left out.
compose_lenient(agents) ==
    LET present == SelectSeq(TailRoles, LAMBDA r : r \in DOMAIN agents)
    IN Ok([kind |-> "sequential", name |-> "engineering_team",
           sub_agents |->
               (IF LeadRole \in DOMAIN agents THEN <<agents[LeadRole]>> ELSE <<>>)
               \o << [kind |-> "parallel", name |-> "implementation_team",
                      sub_agents |-> [i \in 1..Len(present) |-> agents[present[i]]]] >>])

\* A fault for compose: the last member of the implementation team is dropped.
compose_short(agents) ==
    IF \E r \in ExpectedRoles : r \notin DOMAIN agents
    THEN Raise("KeyError")
    ELSE Ok([kind |-> "sequential", name |-> "engineering_team",
             sub_agents |-> <<
                 agents[LeadRole],
                 [kind |-> "parallel", name |-> "implementation_team",
                  sub_agents |->
                      [i \in 1..(Len(TailRoles) - 1) |-> agents[TailRoles[i]]]] >>])

\* EngineeringTeam.__init__ after create_all_agents: the four lookups in
\* agents_dict (KeyError when a key is missing), the ParallelAgent and the
\* SequentialAgent.
compose(agents) ==
    IF \E r \in ExpectedRoles : r \notin DOMAIN agents
    THEN Raise("KeyError")
    ELSE Ok([kind |-> "sequential", name |-> "engineering_team",
             sub_agents |-> <<
                 agents[LeadRole],
                 [kind |-> "parallel", name |-> "implementation_team",
                  sub_agents |->
                      [i \in 1..Len(TailRoles) |-> agents[TailRoles[i]]]] >>])

\* The names of the workers under a node of the workflow.
workers_of(node) ==
    IF node.kind = "agent" THEN {node.name}
    ELSE {node.sub_agents[i].name : i \in 1..Len(node.sub_agents)}

----------------------------------------------------------------------------
(* src/src/orchestrator.py: the body of the loop of run *)

\* An object is a record whose fields are its attributes, so that
\* hasattr(x, 'a') is "a" \in DOMAIN x.  An event may have an agent_name
\* (None, "" or a name) and a content (None or an object); final is the
\* value of is_final_response().  A content may have parts (None or a
\* list); a part may have a text (None or a str) and a function_call (None
\* or an object with a name and, it may be, args: None or a dict).
Falsy(x) == x \in {Nothing, Some("")}
Has(x, attr) == attr \in DOMAIN x
\* hasattr(x, attr) and x.attr: None is false, and so is the empty str,
\* list or dict of an attribute that holds one (text, parts, args); an
\* object (a content, a function_call) is true.
Truthy(x, attr) ==
    /\ Has(x, attr)
    /\ x[attr] # Nothing
    /\ attr \in {"text", "parts", "args"} => x[attr].some # <<>>
getattr_agent_name(event, default) ==
    IF Has(event, "agent_name") THEN event.agent_name ELSE default

\* The number of characters of a text shown by the loop.
PreviewLen == 100

Line(kind, agent, what) == [kind |-> kind, agent |-> agent, what |-> what]

\* What a block of the loop body did: the lines it printed and the
\* exception that ended it, "none" when it ran to its end.
Printed(lines) == [lines |-> lines, err |-> "none"]
Broke(lines, e) == [lines |-> lines, err |-> e]

\* Lines 134-137: one debug line per function_call part, when verbose.
\* The parts are [] for a content without the attribute; iterating the
\* parts None raises TypeError.
event_debug_lines(event, verb) ==
    IF ~(verb /\ Truthy(event, "content")) THEN Printed(<<>>)
    ELSE IF ~Has(event.content.some, "parts") THEN Printed(<<>>)
    ELSE IF event.content.some.parts = Nothing THEN Broke(<<>>, "TypeError")
    ELSE LET calls == SelectSeq(event.content.some.parts.some,
                                LAMBDA part : Truthy(part, "function_call"))
         IN Printed([i \in 1..Len(calls) |->
                Line("event_debug",
                     str_of(getattr_agent_name(event, Some("N/A"))), <<>>)])

\* A fault for track_agent: the header is printed for every named event.
track_agent_always(cur, event, verb) ==
    IF Has(event, "agent_name") /\ ~Falsy(event.agent_name)
    THEN [current_agent |-> event.agent_name,
          lines |-> <<Line("header", event.agent_name.some,
                           IF verb THEN <<"verbose">> ELSE <<"quiet">>)>>]
    ELSE [current_agent |-> cur, lines |-> <<>>]

\* A fault for track_agent: the cursor follows agent_name also when it is
\* None or empty.
track_agent_blank(cur, event, verb) ==
    IF Has(event, "agent_name")
    THEN [current_agent |-> event.agent_name,
          lines |-> IF ~Falsy(event.agent_name) /\ event.agent_name # cur
                    THEN <<Line("header", event.agent_name.some,
                                IF verb THEN <<"verbose">> ELSE <<"quiet">>)>>
                    ELSE <<>>]
    ELSE [current_agent |-> cur, lines |-> <<>>]

\* Lines 141-156: the cursor after the event and the header it prints.
track_agent(cur, event, verb) ==
    IF Has(event, "agent_name") /\ ~Falsy(event.agent_name)
    THEN [current_agent |-> event.agent_name,
          lines |-> IF event.agent_name # cur
                    THEN <<Line("header", event.agent_name.some,
                                IF verb THEN <<"verbose">> ELSE <<"quiet">>)>>
                    ELSE <<>>]
    ELSE [current_agent |-> cur, lines |-> <<>>]

\* Lines 162-184: the lines printed for a function_call part.  A call of
\* save_to_file that has args prints its filename when args holds one, and
\* `'filename' in args` raises TypeError when args is None; any other call,
\* and a call of save_to_file without args, is shown by its name.
call_lines(cur, event, part) ==
    LET call == part.function_call.some
        event_agent == getattr_agent_name(event, Nothing)
        agent_display == IF ~Falsy(event_agent) THEN event_agent.some
                         ELSE IF ~Falsy(cur) THEN cur.some ELSE "unknown"
        debug == IF agent_display = "unknown"
                 THEN <<Line("debug", str_of(event_agent), <<>>),
                        Line("debug", "unknown", <<>>)>>
                 ELSE <<>>
    IN IF call.name = "save_to_file" /\ Has(call, "args")
       THEN (IF call.args = Nothing THEN Broke(debug, "TypeError")
             ELSE IF "filename" \in DOMAIN call.args.some
             THEN Printed(debug \o <<Line("saving", agent_display,
                                          call.args.some["filename"])>>)
             ELSE Printed(debug))
       ELSE Printed(debug \o <<Line("calling_tool", agent_display,
                                    <<call.name>>)>>)

\* Lines 187-191: the preview printed for a text part.
text_lines(part) ==
    IF Truthy(part, "text") /\ Len(strip(part.text.some)) > 0
    THEN LET stripped == strip(part.text.some)
             preview == SubSeq(stripped, 1,
                               IF Len(stripped) < PreviewLen THEN Len(stripped)
                               ELSE PreviewLen)
         IN <<Line("text", "", IF Len(part.text.some) > PreviewLen
                               THEN preview \o <<"...">> ELSE preview)>>
    ELSE <<>>

RECURSIVE part_loop(_, _, _)
\* Lines 160-191: the loop over the parts of an event; an exception ends it
\* with the lines printed so far.
part_loop(cur, event, parts) ==
    IF parts = <<>> THEN Printed(<<>>)
    ELSE With(IF Truthy(Head(parts), "function_call")
              THEN call_lines(cur, event, Head(parts)) ELSE Printed(<<>>),
              LAMBDA called :
                  IF called.err # "none" THEN called
                  ELSE With(part_loop(cur, event, Tail(parts)),
                            LAMBDA rest :
                                [lines |-> called.lines
                                           \o text_lines(Head(parts))
                                           \o rest.lines,
                                 err |-> rest.err]))

\* Lines 159-191: the lines printed for the parts of an event, when verbose.
\* event.content.parts raises AttributeError for a content without parts,
\* and iterating the parts None raises TypeError.
part_lines(cur, event, verb) ==
    IF ~(verb /\ Truthy(event, "content")) THEN Printed(<<>>)
    ELSE IF ~Has(event.content.some, "parts")
    THEN Broke(<<>>, "AttributeError")
    ELSE IF event.content.some.parts = Nothing THEN Broke(<<>>, "TypeError")
    ELSE part_loop(cur, event, event.content.some.parts.some)

\* Lines 193-194: final_result after the event.  event.content raises
\* AttributeError for a terminal event without content; parts[0] raises
\* AttributeError when the content has no parts, TypeError when parts is
\* None and IndexError when it is empty; .text raises AttributeError when
\* the first part has no text.
capture(fin, event) ==
    IF ~event.final THEN Ok(fin)
    ELSE IF ~Has(event, "content") THEN Raise("AttributeError")
    ELSE IF event.content = Nothing THEN Ok(fin)
    ELSE IF ~Has(event.content.some, "parts") THEN Raise("AttributeError")
    ELSE IF event.content.some.parts = Nothing THEN Raise("TypeError")
    ELSE IF event.content.some.parts.some = <<>> THEN Raise("IndexError")
    ELSE IF ~Has(event.content.some.parts.some[1], "text")
    THEN Raise("AttributeError")
    ELSE Ok(event.content.some.parts.some[1].text)

\* Lines 195-196: the completion line of a terminal event with content.
completed_lines(event, verb) ==
    IF verb /\ event.final /\ event.content # Nothing
    THEN <<Line("completed", "", <<>>)>> ELSE <<>>

\* What an iteration leaves behind: the cursor, the capture, the lines
\* printed and the exception that left the loop, "none" when there is none.
Left(cur, fin, lines, e) ==
    [current_agent |-> cur, final_result |-> fin, lines |-> lines,
     raised |-> e]

\* One iteration of the loop of run (lines 127-196) on `event`: the debug
\* scan, the cursor and its header, the lines of the parts, the capture.
\* An exception ends the iteration where it is raised.
loop_body(cur, fin, event, verb) ==
    With(event_debug_lines(event, verb),
         LAMBDA scanned :
    IF scanned.err # "none" THEN Left(cur, fin, scanned.lines, scanned.err)
    ELSE
    With(track_agent(cur, event, verb),
         LAMBDA tracked :
    With(part_lines(tracked.current_agent, event, verb),
         LAMBDA shown :
    IF shown.err # "none"
    THEN Left(tracked.current_agent, fin,
              scanned.lines \o tracked.lines \o shown.lines, shown.err)
    ELSE
    With(capture(fin, event),
         LAMBDA captured :
             IF ~captured.ok
             THEN Left(tracked.current_agent, fin,
                       scanned.lines \o tracked.lines \o shown.lines,
                       captured.err)
             ELSE Left(tracked.current_agent, captured.val,
                       scanned.lines \o tracked.lines \o shown.lines
                       \o completed_lines(event, verb), "none")))))

----------------------------------------------------------------------------
(* Bounds and the configurations explored *)

\* Events a worker emits at most in a run of the engine.
MaxEvents == 2
\* Events emitted and not yet taken by the loop, at most.
MaxQueue == 2
\* Events an arbitrary stream yields at most.
MaxStream == 4
\* Tool names passed at most to one _resolve_tools call.
MaxNames == 2
\* import_module calls followed at most per module.
MaxImports == 2

\* The module names explored: the custom modules, the module of the
\* program the registry is filled from, one whose body raises, one that is
\* not found and a relative one.
ModuleNames ==
    DOMAIN CustomModules \cup {ToolsModule} \cup DOMAIN ImportFailures
    \cup MissingModules \cup {<<".", "x">>}
ToolNames == {"save_to_file", "lint", "deploy"}
RequirementTexts == {<<"q">>, <<"q", " ", "q">>}

\* agents.yaml: the four roles of the team and one more worker.
RegisteredWorkers == ExpectedRoles \cup {"qa_engineer"}
Flaws == {"none", "unknown_tool", "unbound_variable", "missing_module",
          "broken_module", "custom_module", "null_tools", "null_goal"}
WorkerCfg(w, flaw) ==
    LET base == [backstory |-> Some(<<"b">>),
                 role |-> Some(<<"r", " ">>),
                 goal |-> IF flaw = "unbound_variable" /\ w = "test_engineer"
                          THEN Some(<<"g", "{nonexistent}">>)
                          ELSE IF flaw = "null_goal" /\ w = "test_engineer"
                          THEN Nothing
                          ELSE Some(<<"g", "{requirements}">>),
                 tools |-> IF flaw = "unknown_tool" /\ w = "frontend_engineer"
                           THEN Some(<<"save_to_file", "deploy">>)
                           ELSE IF flaw = "null_tools" /\ w = "frontend_engineer"
                           THEN Nothing
                           ELSE Some(<<"save_to_file">>)]
    IN IF w = "backend_engineer"
          /\ flaw \in {"missing_module", "broken_module", "custom_module"}
       THEN [k \in DOMAIN base \cup {"custom_tools_module"} |->
                IF k \in DOMAIN base THEN base[k]
                ELSE IF flaw = "custom_module" THEN Some(<<"custom_tools">>)
                ELSE IF flaw = "broken_module" THEN Some(<<"broken_tools">>)
                ELSE Some(<<"missing_tools">>)]
       ELSE base
AgentsYaml(flaw) == [w \in RegisteredWorkers |-> WorkerCfg(w, flaw)]

\* tasks.yaml is a subsequence of this pool: a task per role, a task for a
\* worker agents.yaml does not have, a second task for the backend
\* engineer, a task for the extra worker, a task without 'agent' and a
\* task whose 'agent' is null.
TaskCfg(agent, file) ==
    [description |-> Some(<<"d", "{requirements}">>),
     expected_output |-> Some(<<"e">>),
     output_file |-> Some(<<"o", "/", file>>),
     agent |-> agent]
TaskFor(agent) == TaskCfg(Some(agent), agent)
TaskPool ==
    << [name |-> "design_task", cfg |-> TaskFor("engineering_lead")],
       [name |-> "backend_task", cfg |-> TaskFor("backend_engineer")],
       [name |-> "ghost_task", cfg |-> TaskFor("ghost_engineer")],
       [name |-> "frontend_task", cfg |-> TaskFor("frontend_engineer")],
       [name |-> "test_task", cfg |-> TaskFor("test_engineer")],
       [name |-> "rework_task", cfg |-> TaskFor("backend_engineer")],
       [name |-> "qa_task", cfg |-> TaskFor("qa_engineer")],
       [name |-> "notes_task", cfg |-> [description |-> Some(<<"n">>)]],
       [name |-> "orphan_task", cfg |-> TaskCfg(Nothing, "f")] >>

RECURSIVE Pick(_, _)
\* The entries of `pool` whose index is in `chosen`, in the order of the pool.
Pick(pool, chosen) ==
    IF pool = <<>> THEN <<>>
    ELSE Pick(SubSeq(pool, 1, Len(pool) - 1), chosen) \o
         (IF Len(pool) \in chosen THEN <<pool[Len(pool)]>> ELSE <<>>)

TasksYamls == {Pick(TaskPool, c) : c \in SUBSET (1..Len(TaskPool))}
\* The first tasks of the pool: at most one task per worker.
PlainTasksYamls ==
    {Pick(TaskPool, c) : c \in SUBSET (1..(Cardinality(ExpectedRoles) + 1))}
StandardTasks == Pick(TaskPool, {1, 2, 4, 5})

\* The fields of agents.yaml and tasks.yaml explored for _build_instruction.
FieldTemplates == {<<>>, <<" ">>, <<"\r", "a", " ", "\f">>,
                   <<"{", "{", "a", "}", "}", "{requirements}">>,
                   <<"{nonexistent}">>}
\* The templates of the fields of a task: an empty one, one to strip, one
\* with a placeholder.
TaskTemplates == {<<>>, <<"\r", "a", " ", "\f">>,
                  <<"{", "{", "a", "}", "}", "{requirements}">>}
PathTemplates == {<<>>, <<"o", "/", "f">>, <<"f", "/", ".", "/", " ">>, <<".">>,
                  <<"{requirements}", "/">>, <<"{nonexistent}">>, <<"f", "}">>}
\* A field is None or one of `texts`; a dict has some of `keys`.
Maybe(texts) == {Some(t) : t \in texts} \cup {Nothing}
Dicts(keys, values) == UNION {[ks -> values] : ks \in SUBSET keys}
AgentFields == {"backstory", "role", "goal"}
TaskFields == {"description", "expected_output"}

\* The parts, contents and events of a stream.
TextPart(t) == [text |-> Some(t), function_call |-> Nothing]
CallPart(name, args) ==
    [text |-> Nothing,
     function_call |-> Some([name |-> name, args |-> Some(args)])]
SaveArgs(f) == [k \in {"filename", "content"} |-> IF k = "filename" THEN f ELSE <<"c">>]
Content(parts) == Some([parts |-> Some(parts)])
Event(name, content, final) ==
    [agent_name |-> name, content |-> content, final |-> final]

\* An event with the number it was emitted under, which the program does
\* not see: the order of emission is read from it.
Stamp(event, n) ==
    [k \in DOMAIN event \cup {"seq"} |-> IF k = "seq" THEN n ELSE event[k]]

\* The events an arbitrary stream is made of: text and function calls of
\* two workers, terminal or not; a terminal event without content; an
\* event without agent_name whose part has a function_call without args
\* and no text; an event of agent_name None with a save_to_file that names
\* no file; a terminal event of agent_name '' whose parts are []; events
\* whose parts are None, whose content has no parts, and whose save_to_file
\* has args None.
StreamNames == {"backend_engineer", "frontend_engineer"}
StreamEvents ==
    { Event(Some("backend_engineer"), Content(<<TextPart(<<"t">>)>>), FALSE),
      Event(Some("frontend_engineer"), Content(<<TextPart(<<"u">>)>>), TRUE),
      Event(Some("backend_engineer"),
            Content(<<CallPart("save_to_file", SaveArgs(<<"f">>)),
                      TextPart(<<"v">>)>>), TRUE),
      Event(Some("frontend_engineer"), Nothing, TRUE),
      [content |-> Content(<<[function_call |-> Some([name |-> "lint"])]>>),
       final |-> FALSE],
      Event(Nothing,
            Content(<<CallPart("save_to_file", [k \in {"content"} |-> <<"c">>]),
                      TextPart(<<"\r", "t">>)>>), FALSE),
      Event(Some(""), Content(<<>>), TRUE),
      Event(Some("frontend_engineer"), Some([parts |-> Nothing]), FALSE),
      Event(Some("frontend_engineer"), Some(<<>>), TRUE),
      Event(Some("backend_engineer"),
            Content(<<[text |-> Nothing,
                       function_call |-> Some([name |-> "save_to_file",
                                               args |-> Nothing])]>>),
            FALSE) }

----------------------------------------------------------------------------
(* The program: main.run builds the team, then runs it *)

NoCall == [op |-> "none"]

\* The state before EngineeringTeam(...) is called, for a given configuration.
Start(acfgs, tcfgs, reqs, verb, at) ==
    /\ agents_config = acfgs
    /\ tasks_config = tcfgs
    /\ requirements = reqs
    /\ verbose = verb
    /\ custom_tools_cache = <<>>
    /\ imports = [m \in ModuleNames |-> 0]
    /\ last_call = NoCall
    /\ pc = at
    /\ agents_dict = Nothing
    /\ team = Nothing
    /\ submitted = Nothing
    /\ wstate = <<>>
    /\ emitted = <<>>
    /\ stream = <<>>
    /\ saved = {}
    /\ current_agent = Nothing
    /\ final_result = Nothing
    /\ printed = <<>>
    /\ consumed = <<>>
    /\ result = Nothing

Init ==
    \E flaw \in Flaws, tcfgs \in PlainTasksYamls :
        Start(AgentsYaml(flaw), tcfgs, <<"q">>, TRUE, "start")

\* EngineeringTeam.__init__ (orchestrator.py 25-83), called by main.run:
\* the factory, create_all_agents, then the composition.  An exception
\* leaves main.run: the program ends without a team.
Construct ==
    /\ pc = "start"
    /\ \E made \in {create_all_agents(agents_config, tasks_config,
                                       custom_tools_cache, imports, requirements)} :
       \E composed \in {IF made.ret.ok THEN compose(made.ret.val)
                         ELSE Raise(made.ret.err)} :
          /\ custom_tools_cache' = made.cache
          /\ imports' = made.imports
          /\ last_call' = [op |-> "create_all_agents", ret |-> made.ret,
                           agents |-> made.agents,
                           raised |-> composed.err]
          /\ agents_dict' = IF made.ret.ok THEN Some(made.ret.val) ELSE Nothing
          /\ team' = IF composed.ok THEN Some(composed.val) ELSE Nothing
          /\ pc' = IF composed.ok THEN "composed" ELSE "failed"
    /\ UNCHANGED <<configVars, engineVars, loopVars>>

\* The workers of the workflow handed to the runner.
graph_workers(graph) ==
    UNION {workers_of(graph.sub_agents[i]) : i \in 1..Len(graph.sub_agents)}

\* EngineeringTeam.run up to the loop (orchestrator.py 100-125): the runner
\* is created on self.team and the cursor and capture start as None.
RunStart ==
    /\ pc = "composed"
    /\ pc' = "running"
    /\ submitted' = team
    /\ wstate' = [w \in graph_workers(team.some) |-> "idle"]
    /\ emitted' = [w \in graph_workers(team.some) |-> 0]
    /\ current_agent' = Nothing
    /\ final_result' = Nothing
    /\ UNCHANGED <<configVars, factoryVars, last_call, agents_dict, team,
                   stream, saved, printed, consumed, result>>

\* A fault for Iterate: the loop is left at the first terminal event, and
\* run returns with what was captured.
Iterate_break(event) ==
    \E step \in {loop_body(current_agent, final_result, event, verbose)} :
       /\ current_agent' = step.current_agent
       /\ final_result' = step.final_result
       /\ printed' = printed \o step.lines
       /\ consumed' = Append(consumed, event)
       /\ pc' = IF step.raised # "none" THEN "crashed"
                ELSE IF event.final THEN "completed" ELSE "running"
       /\ result' = IF step.raised = "none" /\ event.final
                     THEN Some([status |-> "completed",
                                final_output |-> step.final_result])
                     ELSE result

\* One iteration of the loop of run on `event` (orchestrator.py 127-196).
\* An exception of the body leaves run.
Iterate(event) ==
    \E step \in {loop_body(current_agent, final_result, event, verbose)} :
       /\ current_agent' = step.current_agent
       /\ final_result' = step.final_result
       /\ printed' = printed \o step.lines
       /\ consumed' = Append(consumed, event)
       /\ pc' = IF step.raised = "none" THEN "running" ELSE "crashed"
       /\ result' = result

\* The stream is exhausted: run returns (orchestrator.py 198-204).
Return ==
    /\ result' = Some([status |-> "completed", final_output |-> final_result])
    /\ pc' = "completed"
    /\ UNCHANGED <<current_agent, final_result, printed, consumed>>

----------------------------------------------------------------------------
(* The execution engine behind runner.run: a SequentialAgent runs its
   sub-agents one after the other, a ParallelAgent runs its sub-agents
   concurrently and is complete when all of them are; the events of all
   workers arrive on one stream in the order they are emitted. *)

\* The sub-agent of the workflow a worker belongs to.
phase_of(graph, w) ==
    CHOOSE i \in 1..Len(graph.sub_agents) : w \in workers_of(graph.sub_agents[i])

phase_complete(graph, i) ==
    \A w \in workers_of(graph.sub_agents[i]) : wstate[w] = "done"

\* A worker may run once every sub-agent of the submitted workflow before
\* its own is complete; the workers of one ParallelAgent run in any order.
\* The events emitted wait on the stream until the loop takes them: the
\* workers run ahead of the loop by up to MaxQueue events.
active(w) ==
    /\ submitted # Nothing
    /\ pc = "running"
    /\ w \in DOMAIN wstate
    /\ wstate[w] # "done"
    /\ Len(stream) < MaxQueue
    /\ \A j \in 1..(phase_of(submitted.some, w) - 1) : phase_complete(submitted.some, j)

agent_named(graph, w) ==
    LET node == graph.sub_agents[phase_of(graph, w)]
    IN IF node.kind = "agent" THEN node
       ELSE node.sub_agents[CHOOSE i \in 1..Len(node.sub_agents) :
                                node.sub_agents[i].name = w]

\* A worker calls a tool: the event carries the function call, and the
\* engine runs save_to_file, which writes the file.
EmitProgress(w) ==
    /\ active(w)
    /\ emitted[w] < MaxEvents - 1
    /\ LET can_save == \E i \in 1..Len(agent_named(submitted.some, w).tools) :
                           agent_named(submitted.some, w).tools[i].name = "save_to_file"
           part == IF can_save THEN CallPart("save_to_file", SaveArgs(<<w>>))
                   ELSE TextPart(<<"t">>)
       IN /\ stream' = Append(stream,
                 Stamp(Event(Some(w), Content(<<part>>), FALSE),
                       emitted[w] + 1))
          /\ saved' = IF can_save THEN saved \cup {<<w>>} ELSE saved
    /\ emitted' = [emitted EXCEPT ![w] = @ + 1]
    /\ wstate' = [wstate EXCEPT ![w] = "running"]
    /\ UNCHANGED <<configVars, factoryVars, last_call, pc, agents_dict, team,
                   submitted, loopVars>>

\* A worker gives its final response and is done.
EmitFinal(w) ==
    /\ active(w)
    /\ stream' = Append(stream,
           Stamp(Event(Some(w), Content(<<TextPart(<<"t">>)>>), TRUE),
                 emitted[w] + 1))
    /\ emitted' = [emitted EXCEPT ![w] = @ + 1]
    /\ wstate' = [wstate EXCEPT ![w] = "done"]
    /\ UNCHANGED <<configVars, factoryVars, last_call, pc, agents_dict, team,
                   submitted, saved, loopVars>>

\* The loop of run takes the next event of the stream.
Consume ==
    /\ pc = "running"
    /\ stream # <<>>
    /\ Iterate(Head(stream))
    /\ stream' = Tail(stream)
    /\ UNCHANGED <<configVars, factoryVars, last_call, agents_dict, team,
                   submitted, wstate, emitted, saved>>

\* Every worker is done and every event was taken: the stream ends.
Finish ==
    /\ pc = "running"
    /\ stream = <<>>
    /\ \A w \in DOMAIN wstate : wstate[w] = "done"
    /\ Return
    /\ UNCHANGED <<configVars, factoryVars, last_call, agents_dict, team,
                   engineVars>>

Next ==
    \/ Construct
    \/ RunStart
    \/ \E w \in RegisteredWorkers : EmitProgress(w)
    \/ \E w \in RegisteredWorkers : EmitFinal(w)
    \/ Consume
    \/ Finish

Spec == Init /\ [][Next]_vars

----------------------------------------------------------------------------
(* Team assembly over every tasks.yaml of the pool *)

InitAssembly ==
    \E flaw \in Flaws, tcfgs \in TasksYamls :
        Start(AgentsYaml(flaw), tcfgs, <<"q">>, TRUE, "start")

NextAssembly ==
    \/ Construct
    \/ RunStart

SpecAssembly == InitAssembly /\ [][NextAssembly]_vars

----------------------------------------------------------------------------
(* The loop of run over an arbitrary stream of events *)

InitRun ==
    \E verb \in BOOLEAN :
        Start(AgentsYaml("none"), StandardTasks, <<"q">>, verb, "start")

\* runner.run has `event` to yield next; it is the next event of the
\* stream, whatever the loop has taken so far.
Yield(event) ==
    /\ pc = "running"
    /\ Len(stream) < MaxQueue
    /\ Len(consumed) + Len(stream) < MaxStream
    /\ stream' = Append(stream, Stamp(event, Len(consumed) + Len(stream) + 1))
    /\ UNCHANGED <<configVars, factoryVars, last_call, pc, agents_dict, team,
                   submitted, wstate, emitted, saved, loopVars>>

\* runner.run is exhausted.
StreamEnd ==
    /\ pc = "running"
    /\ stream = <<>>
    /\ Return
    /\ UNCHANGED <<configVars, factoryVars, last_call, agents_dict, team,
                   engineVars>>

NextRun ==
    \/ Construct
    \/ RunStart
    \/ \E event \in StreamEvents : Yield(event)
    \/ Consume
    \/ StreamEnd

SpecRun == InitRun /\ [][NextRun]_vars

----------------------------------------------------------------------------
(* _build_instruction on the fields of one worker and one task *)

InitBuild ==
    \E acfg \in Dicts(AgentFields, Maybe(FieldTemplates)),
       tfields \in Dicts(TaskFields, Maybe(TaskTemplates)),
       path \in Maybe(Maybe(PathTemplates)),
       reqs \in RequirementTexts :
        Start([w \in {"worker"} |-> acfg],
              << [name |-> "task",
                  cfg |-> IF path = Nothing THEN tfields
                          ELSE [k \in DOMAIN tfields \cup {"output_file"} |->
                                   IF k = "output_file" THEN path.some
                                   ELSE tfields[k]]] >>,
              reqs, TRUE, "factory")

BuildInstruction ==
    /\ pc = "factory"
    /\ last_call' = [op |-> "build_instruction",
                     ret |-> build_instruction(agents_config, tasks_config,
                                               "worker", "task", requirements)]
    /\ UNCHANGED <<configVars, factoryVars, pc, agents_dict, team, engineVars,
                   loopVars>>

SpecBuild == InitBuild /\ [][BuildInstruction]_vars

----------------------------------------------------------------------------
(* _resolve_tools called again and again on one factory *)

NameLists == UNION {[1..n -> ToolNames] : n \in 0..MaxNames}
\* custom_tools_module of the calls: None, '', a module that is found, one
\* that is not and a relative name.
ModuleRefs ==
    {Some(m) : m \in (ModuleNames \ DOMAIN ImportFailures) \cup {<<>>}}
    \cup {Nothing}

InitResolve ==
    Start(AgentsYaml("none"), StandardTasks, <<"q">>, TRUE, "factory")

ResolveTools ==
    /\ pc = "factory"
    /\ \E tool_names \in NameLists, module \in ModuleRefs :
         \E r \in {resolve_tools(custom_tools_cache, imports,
                                  Some(tool_names), module)} :
            /\ \A m \in ModuleNames : r.imports[m] <= MaxImports
            /\ custom_tools_cache' = r.cache
            /\ imports' = r.imports
            /\ last_call' = [op |-> "resolve_tools", tool_names |-> tool_names,
                             module |-> module, ret |-> r.ret, used |-> r.used,
                             cached |-> /\ module # Nothing
                                        /\ module.some \in DOMAIN custom_tools_cache]
    /\ UNCHANGED <<configVars, pc, agents_dict, team, engineVars, loopVars>>

SpecResolve == InitResolve /\ [][ResolveTools]_vars

----------------------------------------------------------------------------
(* Properties of the loop of run *)

Named(event) == Has(event, "agent_name") /\ ~Falsy(event.agent_name)

\* The worker an event names, "" when it names none.
NameOf(event) == IF Named(event) THEN event.agent_name.some ELSE ""

RECURSIVE ExpectedHeaders(_, _)
\* The workers a header is due for: every event that names a worker other
\* than the cursor, the cursor then moving to that worker.
ExpectedHeaders(events, cursor) ==
    IF events = <<>> THEN <<>>
    ELSE IF Named(Head(events))
         THEN (IF NameOf(Head(events)) # cursor
               THEN <<NameOf(Head(events))>> ELSE <<>>)
              \o ExpectedHeaders(Tail(events), NameOf(Head(events)))
         ELSE ExpectedHeaders(Tail(events), cursor)

PrintedHeaders ==
    LET headers == SelectSeq(printed, LAMBDA line : line.kind = "header")
    IN [i \in 1..Len(headers) |-> headers[i].agent]

NamesOf(events) ==
    [i \in 1..Len(events) |->
        IF Has(events[i], "agent_name") THEN NameOf(events[i]) ELSE "absent"]

\* C1: the headers printed are, in order, exactly those of the consumed
\* events that name a worker other than the current-worker cursor (which
\* then becomes that worker); an event naming the cursor's worker prints none.
C1_HeaderCoalescing ==
    pc \in {"running", "completed", "crashed"} =>
        PrintedHeaders = ExpectedHeaders(consumed, "")

\* A terminal event that carries content.
Terminal(event) == event.final /\ Truthy(event, "content")

\* The parts of an event, none when it has no content or no list of parts.
PartsOf(event) ==
    IF Truthy(event, "content") /\ Truthy(event.content.some, "parts")
    THEN event.content.some.parts.some ELSE <<>>

RECURSIVE LastTerminal(_)
\* The last consumed terminal event that carried content, if any.
LastTerminal(events) ==
    IF events = <<>> THEN Nothing
    ELSE IF Terminal(events[Len(events)]) THEN Some(events[Len(events)])
    ELSE LastTerminal(SubSeq(events, 1, Len(events) - 1))

\* The text of the first part of an event that is a text part, if any.
FirstTextPart(event) ==
    LET texts == SelectSeq(PartsOf(event), LAMBDA part : Truthy(part, "text"))
    IN IF texts = <<>> THEN Nothing ELSE texts[1].text

\* C2: when the stream is exhausted run returns status 'completed' with
\* final_output the first text part of the last terminal event that carried
\* content, and nothing when no such event was consumed.
C2_FinalOutputFirstTextPart ==
    pc = "completed" =>
        /\ result.some.status = "completed"
        /\ result.some.final_output =
              IF LastTerminal(consumed) = Nothing THEN Nothing
              ELSE FirstTextPart(LastTerminal(consumed).some)

\* The function calls carried by the parts of an event, in order.
CallsOf(event) ==
    LET calls == SelectSeq(PartsOf(event),
                           LAMBDA part : Truthy(part, "function_call"))
    IN [i \in 1..Len(calls) |-> calls[i].function_call.some]

RECURSIVE Invocations(_)
\* The function calls of a sequence of events, in the order consumed.
Invocations(events) ==
    IF events = <<>> THEN <<>>
    ELSE CallsOf(Head(events)) \o Invocations(Tail(events))

ProgressLines ==
    SelectSeq(printed, LAMBDA line : line.kind \in {"saving", "calling_tool"})

\* C12: in a verbose run every function call part of every consumed event
\* has its progress line, in order: the line names a worker and the tool,
\* and for save_to_file the filename of the call.
C12_ProgressLinePerInvocation ==
    verbose /\ pc \in {"running", "completed", "crashed"} =>
        /\ Len(ProgressLines) = Len(Invocations(consumed))
        /\ \A k \in 1..Len(ProgressLines) :
              LET call == Invocations(consumed)[k]
                  line == ProgressLines[k]
              IN /\ line.agent # ""
                 /\ IF call.name = "save_to_file"
                    THEN /\ line.kind = "saving"
                         /\ (/\ Truthy(call, "args")
                             /\ "filename" \in DOMAIN call.args.some) =>
                                line.what = call.args.some["filename"]
                    ELSE line.what = <<call.name>>

\* The lines the last step printed.
NewLines == SubSeq(printed', Len(printed) + 1, Len(printed'))

\* C13: an iteration on an event whose agent_name is missing, None or empty
\* prints no header and leaves the cursor as it was, and the tool lines it
\* prints name the cursor's worker, or "unknown" when the cursor is unset.
C13_NamelessEventKeepsCursor ==
    [][(consumed' # consumed /\ ~Named(consumed'[Len(consumed')])) =>
          /\ current_agent' = current_agent
          /\ \A k \in 1..Len(NewLines) :
                /\ NewLines[k].kind # "header"
                /\ NewLines[k].kind \in {"saving", "calling_tool"} =>
                      NewLines[k].agent = IF Falsy(current_agent) THEN "unknown"
                                          ELSE current_agent.some]_vars

\* C13 witness: of [<no name>, A, <no name>, A] only the first A printed a
\* header; the tool line of the first nameless event names "unknown" and
\* that of the second names A.
C13_Witness ==
    /\ NamesOf(consumed) = <<"absent", "backend_engineer", "absent",
                             "backend_engineer">>
    /\ PrintedHeaders = <<"backend_engineer">>
    /\ current_agent = Some("backend_engineer")
    /\ [k \in 1..Len(ProgressLines) |-> ProgressLines[k].agent]
          = <<"unknown", "backend_engineer">>

----------------------------------------------------------------------------
(* Properties of the engine run on the composed team *)

\* The events in the order they were emitted: those consumed, then those
\* waiting on the stream.
EmittedEvents == consumed \o stream

IsTailWorker(w) ==
    \E i \in 1..Len(TailRoles) : TailRoles[i] = w

\* C3: the lead is done before a worker of the implementation team starts,
\* so every event of such a worker comes after every event of the lead;
\* the events of one worker are consumed in the order it emitted them.
C3_PhaseOrdering ==
    pc \in {"running", "completed"} =>
        /\ \A w \in DOMAIN wstate :
              IsTailWorker(w) /\ wstate[w] # "idle" => wstate[LeadRole] = "done"
        /\ \A i \in 1..Len(EmittedEvents) :
              IsTailWorker(NameOf(EmittedEvents[i])) =>
                 /\ wstate[LeadRole] = "done"
                 /\ \A j \in i..Len(EmittedEvents) :
                       NameOf(EmittedEvents[j]) # LeadRole
        /\ \A w \in DOMAIN wstate :
              LET mine == SelectSeq(consumed, LAMBDA e : NameOf(e) = w)
              IN \A k \in 1..Len(mine) : mine[k].seq = k

\* C3 witness: a finished run in which the events of two workers of the
\* implementation team were consumed interleaved.
C3_Witness ==
    /\ pc = "completed"
    /\ \E i, j, k \in 1..Len(consumed) :
          /\ i < j /\ j < k
          /\ NameOf(consumed[i]) = "backend_engineer"
          /\ NameOf(consumed[j]) = "frontend_engineer"
          /\ NameOf(consumed[k]) = "backend_engineer"
    /\ Len(SelectSeq(consumed, LAMBDA e : NameOf(e) = LeadRole)) > 1

CompletedLines == SelectSeq(printed, LAMBDA line : line.kind = "completed")

\* The iteration the loop runs on the event it takes next.
NextStep == loop_body(current_agent, final_result, Head(stream), verbose)

\* C11 as stated: the loop ends at the first terminal event, so no consumed
\* event follows a consumed terminal event.
C11_EndsAtTerminalEvent ==
    \A j \in 1..Len(consumed) : \A i \in 1..(j - 1) : ~consumed[i].final

\* C11 amended: the loop takes the events one at a time in emission order,
\* and it ends only when the stream ends, run then returning the capture, or
\* when an iteration raises, the exception then leaving run without a
\* result.  A terminal event does not end it: the loop goes on after any
\* iteration that does not raise, and such an iteration prints the header
\* of an event that names a worker other than the cursor and, on a terminal
\* event with content, captures the text of its first part over the
\* earlier capture and prints the completion line of a verbose run.
C11_ConsumesUntilStreamEnds ==
    [][/\ consumed' # consumed =>
             /\ stream # <<>>
             /\ consumed' = Append(consumed, Head(stream))
             /\ stream' = Tail(stream)
             /\ Head(stream).seq = Len(consumed) + 1
             /\ pc' = IF NextStep.raised = "none" THEN "running" ELSE "crashed"
             /\ result' = Nothing
             /\ NextStep.raised = "none" =>
                   /\ (/\ Named(Head(stream))
                       /\ Head(stream).agent_name # current_agent) =>
                          \E k \in 1..Len(NewLines) :
                              /\ NewLines[k].kind = "header"
                              /\ NewLines[k].agent = NameOf(Head(stream))
                   /\ Terminal(Head(stream)) =>
                          /\ final_result' = PartsOf(Head(stream))[1].text
                          /\ verbose =>
                                NewLines[Len(NewLines)].kind = "completed"
       /\ (pc = "running" /\ pc' = "completed") =>
             /\ stream = <<>>
             /\ consumed' = consumed
             /\ result' = Some([status |-> "completed",
                                final_output |-> final_result])
       /\ (pc = "running" /\ pc' = "crashed") => consumed' # consumed
      ]_vars

\* C11 witness: a finished run in which, after a terminal event with
\* content, an event of another worker was taken and its header printed,
\* and a later terminal event replaced the capture.
C11_Witness ==
    /\ pc = "completed"
    /\ \E i, j, k \in 1..Len(consumed) :
          /\ i < j /\ j < k
          /\ Terminal(consumed[i]) /\ Terminal(consumed[k])
          /\ ~consumed[j].final
          /\ Named(consumed[j])
          /\ NameOf(consumed[j]) # NameOf(consumed[i])
          /\ PartsOf(consumed[i])[1].text # PartsOf(consumed[k])[1].text
          /\ result.some.final_output = PartsOf(consumed[k])[1].text
    /\ Len(PrintedHeaders) > 1

----------------------------------------------------------------------------
(* Properties of team assembly *)

Constructed == last_call.op = "create_all_agents"

\* The phases of a composed team: its sequential (single worker) phases and
\* its parallel phases.
Phases(kind) ==
    {i \in 1..Len(team.some.sub_agents) : team.some.sub_agents[i].kind = kind}

\* C4 as stated: whatever the number N of resolved workers beside the lead,
\* composition succeeds with one sequential phase holding the lead and one
\* parallel phase holding exactly those N workers.
C4_AnyTailSize ==
    Constructed /\ last_call.ret.ok /\ LeadRole \in DOMAIN agents_dict.some =>
        /\ pc # "failed"
        /\ Phases("agent") = {1} /\ team.some.sub_agents[1].name = LeadRole
        /\ Phases("parallel") = {2}
        /\ Len(team.some.sub_agents[2].sub_agents)
              = Cardinality(DOMAIN agents_dict.some \ {LeadRole})
        /\ workers_of(team.some.sub_agents[2]) = DOMAIN agents_dict.some \ {LeadRole}

\* C4 amended: a resolved team with the lead and the three expected members
\* of the implementation team composes into exactly one sequential phase
\* holding the lead followed by exactly one parallel phase of exactly those
\* three workers, each the resolved worker of its name; other resolved workers
\* are left out, and a team without one of the four roles is not composed.
C4_FixedPhaseGraph ==
    Constructed /\ last_call.ret.ok =>
        IF ExpectedRoles \subseteq DOMAIN agents_dict.some
        THEN /\ pc # "failed"
             /\ Len(team.some.sub_agents) = 2
             /\ Phases("agent") = {1}
             /\ team.some.sub_agents[1] = agents_dict.some[LeadRole]
             /\ Phases("parallel") = {2}
             /\ Len(team.some.sub_agents[2].sub_agents) = Len(TailRoles)
             /\ \A i \in 1..Len(TailRoles) :
                   team.some.sub_agents[2].sub_agents[i] = agents_dict.some[TailRoles[i]]
        ELSE pc = "failed" /\ team = Nothing

\* C4 witness: a composed team whose resolved workers include a fifth one.
C4_Witness ==
    /\ pc = "composed"
    /\ "qa_engineer" \in DOMAIN agents_dict.some
    /\ "qa_engineer" \notin workers_of(team.some.sub_agents[2])

\* The pairs of the assignment map for which create_agent fails.
FailingPairs ==
    LET mapping == agent_task_mapping(tasks_config)
    IN {i \in 1..Len(mapping) :
           ~create_agent(agents_config, tasks_config, <<>>,
                         [m \in ModuleNames |-> 0],
                         mapping[i][1], mapping[i][2], requirements).ret.ok}

\* C5: when create_agent fails for a pair of the assignment map,
\* create_all_agents raises the error of the first such pair and returns no
\* map, however many workers it had created before.
C5_FailFast ==
    Constructed /\ FailingPairs # {} =>
        LET mapping == agent_task_mapping(tasks_config)
            first == CHOOSE i \in FailingPairs : \A j \in FailingPairs : i <= j
        IN /\ ~last_call.ret.ok
           /\ last_call.ret.err =
                 create_agent(agents_config, tasks_config, <<>>,
                              [m \in ModuleNames |-> 0],
                              mapping[first][1], mapping[first][2],
                              requirements).ret.err
           /\ agents_dict = Nothing
           /\ pc = "failed"

\* C5 witness: create_all_agents raised after it had created two workers.
C5_Witness ==
    /\ Constructed
    /\ ~last_call.ret.ok
    /\ Cardinality(DOMAIN last_call.agents) >= 2
    /\ agents_dict = Nothing

\* The workers more than one task of tasks.yaml names.
SharedWorkers ==
    {tasks_config[i].cfg["agent"] :
        i \in {k \in 1..Len(tasks_config) :
                 /\ "agent" \in DOMAIN tasks_config[k].cfg
                 /\ \E j \in 1..Len(tasks_config) :
                       /\ j # k
                       /\ "agent" \in DOMAIN tasks_config[j].cfg
                       /\ tasks_config[j].cfg["agent"] = tasks_config[k].cfg["agent"]}}

\* C6: a worker named by more than one task makes create_all_agents fail
\* before any worker is created.
C6_DuplicateWorkerRejected ==
    Constructed /\ SharedWorkers # {} =>
        ~last_call.ret.ok /\ last_call.agents = <<>>

\* C10: when create_all_agents raises, or the map it returns lacks the lead
\* or a member of the implementation team (the lookup then raises KeyError),
\* the run fails; a failed run has no team, nothing is handed to the
\* runner, no event is emitted or consumed, no file is saved and run
\* returns nothing.
C10_FailedRunNeverRuns ==
    /\ Constructed /\ ~last_call.ret.ok => pc = "failed"
    /\ Constructed /\ last_call.ret.ok
         /\ ~(ExpectedRoles \subseteq DOMAIN agents_dict.some) =>
            pc = "failed" /\ last_call.raised = "KeyError"
    /\ pc = "failed" =>
          /\ team = Nothing
          /\ submitted = Nothing
          /\ stream = <<>>
          /\ consumed = <<>>
          /\ printed = <<>>
          /\ saved = {}
          /\ result = Nothing

\* C10 witness: every worker was created, a role is missing, the run failed.
C10_Witness ==
    /\ pc = "failed"
    /\ last_call.ret.ok
    /\ last_call.raised = "KeyError"
    /\ DOMAIN agents_dict.some # {}

----------------------------------------------------------------------------
(* Properties of the factory *)

Resolved == last_call.op = "resolve_tools"

\* C7: an entry of the module cache is never replaced, changed or removed,
\* its module is not imported again, and a resolve that names a cached
\* module looks the names up in that very entry.
C7_CacheWriteOnce ==
    [][\A m \in DOMAIN custom_tools_cache :
          /\ m \in DOMAIN custom_tools_cache'
          /\ custom_tools_cache'[m] = custom_tools_cache[m]
          /\ imports'[m] = imports[m]
          /\ imports[m] = 1
          /\ (last_call'.op = "resolve_tools" /\ last_call'.module = Some(m)
                => last_call'.used = custom_tools_cache[m])]_vars

\* C7 witness: a resolve found its module in the cache.
C7_Witness ==
    /\ Resolved
    /\ last_call.cached
    /\ last_call.module = Some(<<"custom_tools">>)
    /\ last_call.used = custom_tools_cache[<<"custom_tools">>]
    /\ imports[<<"custom_tools">>] = 1

\* The names the custom module of the last resolve defines.
CustomNames ==
    IF last_call.module # Nothing
       /\ last_call.module.some \in DOMAIN ImportableModules
    THEN ImportableModules[last_call.module.some] ELSE {}

\* C9: resolve returns one capability per requested name, in order: that of
\* the custom module when it defines the name, else that of the registry;
\* when a name is in neither, it raises and returns no list.
C9_ResolveOrder ==
    Resolved /\ last_call.module \in
                    {Some(m) : m \in DOMAIN ImportableModules \cup {<<>>}}
                    \cup {Nothing} =>
        LET names == last_call.tool_names
        IN IF \A i \in 1..Len(names) :
                 names[i] \in CustomNames \cup DOMAIN TOOL_REGISTRY
           THEN /\ last_call.ret.ok
                /\ Len(last_call.ret.val) = Len(names)
                /\ \A i \in 1..Len(names) :
                      last_call.ret.val[i] =
                         IF names[i] \in CustomNames
                         THEN ModuleCallable(last_call.module.some,
                                             names[i])
                         ELSE Callable(ToolsModule, names[i])
           ELSE /\ ~last_call.ret.ok
                /\ last_call.ret.err = "ValueError"
                /\ last_call.ret.val = Nothing

\* C9 witness: a resolve that took one name from the registry and the next
\* from the custom module.
C9_Witness ==
    /\ Resolved
    /\ last_call.ret.ok
    /\ last_call.module = Some(<<"lint_tools">>)
    /\ last_call.tool_names = <<"save_to_file", "lint">>

Built == last_call.op = "build_instruction"

\* The place of a prefix in the instruction, 0 when it is not there.
Place(text, prefix) ==
    IF \E i \in 1..Len(text) : text[i] = prefix
    THEN CHOOSE i \in 1..Len(text) : text[i] = prefix
    ELSE 0

PrefixedFields ==
    << [cfg |-> agents_config["worker"], key |-> "role", prefix |-> RolePrefix],
       [cfg |-> agents_config["worker"], key |-> "goal", prefix |-> GoalPrefix],
       [cfg |-> tasks_config[1].cfg, key |-> "description", prefix |-> TaskPrefix],
       [cfg |-> tasks_config[1].cfg, key |-> "expected_output",
        prefix |-> ExpectedPrefix],
       [cfg |-> tasks_config[1].cfg, key |-> "output_file", prefix |-> SavePrefix] >>

\* The prefixes that are in the instruction come in the declared order.
InDeclaredOrder(text) ==
    \A i, j \in 1..Len(PrefixedFields) :
        /\ i < j
        /\ Place(text, PrefixedFields[i].prefix) > 0
        /\ Place(text, PrefixedFields[j].prefix) > 0
        => Place(text, PrefixedFields[i].prefix) < Place(text, PrefixedFields[j].prefix)

\* C8: the sections of a built instruction come in the declared order, and
\* a section's prefix is in the instruction if and only if its field is
\* present and not empty.
C8_SectionsIffNonEmpty ==
    Built /\ last_call.ret.ok =>
        /\ InDeclaredOrder(last_call.ret.val)
        /\ \A i \in 1..Len(PrefixedFields) :
              Place(last_call.ret.val, PrefixedFields[i].prefix) > 0
              <=> /\ PrefixedFields[i].key \in DOMAIN PrefixedFields[i].cfg
                  /\ PrefixedFields[i].cfg[PrefixedFields[i].key] # Some(<<>>)

====
